---- MODULE Spec2Model ----
(***************************************************************************)
(* State-machine model of the grid trader (pkgs/traders/grid/trader.py):   *)
(* the control loop, the buy/sell signal checks, the adaptive grid         *)
(* controller and the retrying order execution.                            *)
(*                                                                         *)
(* Numbers.  The code computes in floating point; the model computes in    *)
(* exact integers.  Prices are in tenths of a quote unit (97.0 is 970),    *)
(* grid_size is in tenths of a percent (2.0 % is 20), position ratios are  *)
(* in percent, volatilities in hundredths, durations in seconds.  Every    *)
(* comparison of the code is cross-multiplied so that no division occurs.  *)
(* An optional float is a sequence: None is << >>, the float v is <<v>>.   *)
(***************************************************************************)
EXTENDS Integers, Sequences, FiniteSets, TLC

VARIABLES
    initialized,            \* TraderGrid.initialized
    AUTO_ADJUST_BASE_PRICE, \* TraderGridConfig.AUTO_ADJUST_BASE_PRICE (fixed at start)
    base_price,             \* TraderGrid.base_price
    grid_size,              \* TraderGrid.grid_size
    highest,                \* TraderGrid.highest
    lowest,                 \* TraderGrid.lowest
    current_price,          \* TraderGrid.current_price
    buying_or_selling,      \* TraderGrid.buying_or_selling
    active_orders,          \* TraderGrid.active_orders
    new_trades,             \* records the current execute_order call has appended to
                            \* ManagerOrder.trade_history
    pc,                     \* where the control loop is: "loop", "risk", "exec", "wait",
                            \* "recheck", "done", "cooldown"
    side,                   \* execute_order: argument side
    retry_count,            \* execute_order: local retry_count
    result,                 \* execute_order: what the call returns
    signal,                 \* what the last tick decided: "none", "sell", "buy"
    funds_ok,               \* what the funds check of the last tick answers
    corrected,              \* the last tick took the auto-correction branch
    episode,                \* how far the ticks since initialization follow EpisodePrices
    gw,                     \* what the gateway answered in the last step of execute_order
    error_text,             \* str(e) of the error create_order raised in that step, or ""
    order_price,            \* execute_order: limit price of the order in flight, 0 when none
    placed,                 \* orders created by the current execute_order call
    cancelled,              \* cancellations accepted during the current call
    sweeps,                 \* transfer_excess_funds calls of the current call
    faults,                 \* attempts of the current call in which a gateway call failed
    base_before,            \* base_price when the current execute_order call began
    untracked,              \* an order execute_order placed may still be open at the
                            \* gateway while no marker of active_orders names it
    call                    \* the last call of a component made on its own: its
                            \* name, its inputs and what it did

vars == << initialized, AUTO_ADJUST_BASE_PRICE, base_price, grid_size, highest, lowest,
           current_price, buying_or_selling, active_orders, new_trades, pc, side,
           retry_count, result, signal, funds_ok, corrected, episode, gw, error_text,
           order_price, placed, cancelled, sweeps, faults, base_before, untracked,
           call >>

\* the state of the trader and of its control loop
loopVars == << initialized, AUTO_ADJUST_BASE_PRICE, base_price, grid_size, highest, lowest,
               current_price, buying_or_selling, active_orders, new_trades, pc, side,
               retry_count, result, signal, funds_ok, corrected, episode, gw, error_text,
               order_price, placed, cancelled, sweeps, faults, base_before, untracked >>

gridVars == << base_price, grid_size, highest, lowest, buying_or_selling >>

execVars == << side, retry_count, result, gw, error_text, order_price, placed, cancelled,
               sweeps, faults, base_before, new_trades >>

tickVars == << current_price, signal, funds_ok, corrected, episode >>

----------------------------------------------------------------------------
(* Bounds of the model *)

\* at most this many attempts of one execute_order call meet a failing gateway
\* call or a failing funds check
MaxFaults == 1

\* ActionerS1Config.S1_LOOKBACK, 52 days by default: the model looks back
\* over a few candles
S1_LOOKBACK == 2

----------------------------------------------------------------------------
(* Program constants *)

INITIAL_GRID == 20
MIN_POSITION_RATIO == 10
RISK_MIN_POSITION_RATIO == 10
RISK_MAX_POSITION_RATIO == 90
GRID_MIN == 10
GRID_MAX == 40
max_retries == 10
HISTORY_LIMIT == 100
DEFAULT_INTERVAL_SECONDS == 3600
MIN_INTERVAL_SECONDS == 300

None == << >>

Some(v) == << v >>

\* Python truthiness of an optional float: None and 0.0 are false
Truthy(x) == x # None /\ x[1] # 0

----------------------------------------------------------------------------
(* Inputs the exchange gateway can deliver *)

\* last prices of the ticker; 0 stands for a missing price
Prices == {950, 955, 960, 962, 970, 1000, 1025, 1030}

\* configured INITIAL_BASE_PRICE: 0 means "take the latest price"
InitialBasePrices == {0, 1000}

\* the latest price when the trader initializes; 0 stands for a missing price
StartPrices == {0, 1000}

\* the price sequence of the buy episode example
EpisodePrices == << 970, 950, 960, 955, 962 >>

\* top of the order book when an order is priced
BookPrices == {962, 1025}

\* position ratios, in percent
Ratios == {5, 50, 95}

\* annualised volatilities, in hundredths (35 is 0.35); 99900 is the upper end
\* of the last range of both tables and lies in none
Volatilities == {5, 35, 130, 99900}

\* seconds since the last grid adjustment
Elapsed == {400, 2000, 4000}

\* what a funds check can meet, in the currency of the side: the amount
\* required, the spot balance, the savings balance, whether a transfer succeeds
FundsCases ==
    { [needed |-> 100, available |-> 100, funding |-> 0,   transfer_ok |-> FALSE],
      [needed |-> 100, available |-> 40,  funding |-> 100, transfer_ok |-> TRUE],
      [needed |-> 100, available |-> 40,  funding |-> 100, transfer_ok |-> FALSE],
      [needed |-> 100, available |-> 40,  funding |-> 50,  transfer_ok |-> TRUE] }

Sides == {"buy", "sell"}

\* str(e) of the errors create_order can raise: a timeout, and three reports of
\* an insufficient balance that differ in wording and letter case; "zi jin bu zu"
\* stands for the Chinese phrase of the source (funds insufficient)
ErrorTexts ==
    { "Request timed out",
      "Insufficient balance",
      "zi jin bu zu",
      "Account has insufficient balance for requested action." }

----------------------------------------------------------------------------
(* TraderGridConfig *)

\* a flip threshold that forgets the division by 5
flip_threshold_whole_grid(g) == [num |-> g, den |-> 100 * 10]

\* flip_threshold(grid_size) = (grid_size / 5) / 100, as a fraction num/den
flip_threshold(g) == [num |-> g, den |-> 5 * 100 * 10]

\* GRID_PARAMS["volatility_threshold"]["ranges"]: [lo, hi) -> grid
GridRanges ==
    << [lo |-> 0,   hi |-> 20,    grid |-> 10],
       [lo |-> 20,  hi |-> 40,    grid |-> 15],
       [lo |-> 40,  hi |-> 60,    grid |-> 20],
       [lo |-> 60,  hi |-> 80,    grid |-> 25],
       [lo |-> 80,  hi |-> 100,   grid |-> 30],
       [lo |-> 100, hi |-> 120,   grid |-> 35],
       [lo |-> 120, hi |-> 99900, grid |-> 40] >>

\* DYNAMIC_INTERVAL_PARAMS["volatility_to_interval_hours"], in seconds
IntervalRanges ==
    << [lo |-> 0,  hi |-> 20,    seconds |-> 3600],
       [lo |-> 20, hi |-> 40,    seconds |-> 1800],
       [lo |-> 40, hi |-> 80,    seconds |-> 900],
       [lo |-> 80, hi |-> 99900, seconds |-> 450] >>

Max(a, b) == IF a >= b THEN a ELSE b

Min(a, b) == IF a <= b THEN a ELSE b

\* index of the first range of table t holding v, 0 when none does
FirstMatch(t, v) ==
    LET hits == {i \in 1..Len(t) : t[i].lo <= v /\ v < t[i].hi}
    IN  IF hits = {} THEN 0 ELSE CHOOSE i \in hits : \A j \in hits : i <= j

\* _calculate_dynamic_interval_seconds, given the volatility it computed
calculate_dynamic_interval_seconds(volatility) ==
    LET i == FirstMatch(IntervalRanges, volatility)
        matched == IF i = 0 THEN DEFAULT_INTERVAL_SECONDS ELSE IntervalRanges[i].seconds
    IN  Max(matched, MIN_INTERVAL_SECONDS)

\* adjust_grid_size: the grid size it leaves, given the volatility it computed
adjust_grid_size(volatility, initial_grid) ==
    LET i == FirstMatch(GridRanges, volatility)
        base_grid == IF i = 0 THEN initial_grid ELSE GridRanges[i].grid
    IN  Max(Min(base_grid, GRID_MAX), GRID_MIN)

----------------------------------------------------------------------------
(* Bands and signal checks *)

\* a lower band placed at base_price / (1 + grid_size / 100), times 1000
get_lower_band_reciprocal(b, g) == (b * 1000 * 1000) \div (1000 + g)

\* _get_upper_band and _get_lower_band, times 1000
get_upper_band(b, g) == b * (1000 + g)

get_lower_band(b, g) == b * (1000 - g)

\* ManagerPosition.ensure_trading_funds, in the currency of the side
ensure_trading_funds(needed, available, funding, transfer_ok) ==
    IF available >= needed THEN TRUE
    ELSE IF available + funding < needed THEN FALSE
    ELSE transfer_ok

\* a buy check that fires on any price at or above the tracked low
check_buy_signal_no_rebound(p, b, g, low, bos, funds) ==
    IF p * 1000 <= get_lower_band(b, g)
    THEN LET new_lowest == IF low = None THEN Some(p) ELSE Some(Min(low[1], p))
             flip == Truthy(new_lowest) /\ p >= new_lowest[1]
         IN  [lowest |-> new_lowest,
              buying_or_selling |-> ~flip,
              fire |-> flip /\ funds]
    ELSE [lowest |-> low, buying_or_selling |-> FALSE, fire |-> FALSE]

\* _check_buy_signal on price p: the fields it leaves and whether it returns True
check_buy_signal(p, b, g, low, bos, funds) ==
    IF p * 1000 <= get_lower_band(b, g)
    THEN LET new_lowest == IF low = None THEN Some(p) ELSE Some(Min(low[1], p))
             th == flip_threshold(g)
             flip == Truthy(new_lowest) /\ p * th.den >= new_lowest[1] * (th.den + th.num)
         IN  [lowest |-> new_lowest,
              buying_or_selling |-> ~flip,
              fire |-> flip /\ funds]
    ELSE [lowest |-> low, buying_or_selling |-> FALSE, fire |-> FALSE]

\* a sell check that skips check_sell_balance
check_sell_signal_no_balance(p, b, g, high, bos, auto, ratio, funds) ==
    IF auto /\ p * 1000 >= get_upper_band(b, g) /\ ratio < MIN_POSITION_RATIO
    THEN [base_price |-> p, highest |-> None, buying_or_selling |-> bos,
          fire |-> FALSE, corrected |-> TRUE]
    ELSE IF p * 1000 >= get_upper_band(b, g)
    THEN LET new_highest == IF high = None THEN Some(p) ELSE Some(Max(high[1], p))
             th == flip_threshold(g)
             flip == Truthy(new_highest) /\ p * th.den <= new_highest[1] * (th.den - th.num)
         IN  [base_price |-> b, highest |-> new_highest, buying_or_selling |-> ~flip,
              fire |-> flip, corrected |-> FALSE]
    ELSE [base_price |-> b, highest |-> high, buying_or_selling |-> FALSE,
          fire |-> FALSE, corrected |-> FALSE]

\* a sell check that waits for a fall of a whole grid from the tracked high
check_sell_signal_whole_grid(p, b, g, high, bos, auto, ratio, funds) ==
    IF auto /\ p * 1000 >= get_upper_band(b, g) /\ ratio < MIN_POSITION_RATIO
    THEN [base_price |-> p, highest |-> None, buying_or_selling |-> bos,
          fire |-> FALSE, corrected |-> TRUE]
    ELSE IF p * 1000 >= get_upper_band(b, g)
    THEN LET new_highest == IF high = None THEN Some(p) ELSE Some(Max(high[1], p))
             flip == Truthy(new_highest) /\ p * 1000 <= new_highest[1] * (1000 - g)
         IN  [base_price |-> b, highest |-> new_highest, buying_or_selling |-> ~flip,
              fire |-> flip /\ funds, corrected |-> FALSE]
    ELSE [base_price |-> b, highest |-> high, buying_or_selling |-> FALSE,
          fire |-> FALSE, corrected |-> FALSE]

\* a sell check whose auto-correction branch returns True after the rewrite
check_sell_signal_corrects_and_fires(p, b, g, high, bos, auto, ratio, funds) ==
    IF auto /\ p * 1000 >= get_upper_band(b, g) /\ ratio < MIN_POSITION_RATIO
    THEN [base_price |-> p, highest |-> None, buying_or_selling |-> bos,
          fire |-> TRUE, corrected |-> TRUE]
    ELSE IF p * 1000 >= get_upper_band(b, g)
    THEN LET new_highest == IF high = None THEN Some(p) ELSE Some(Max(high[1], p))
             th == flip_threshold(g)
             flip == Truthy(new_highest) /\ p * th.den <= new_highest[1] * (th.den - th.num)
         IN  [base_price |-> b, highest |-> new_highest, buying_or_selling |-> ~flip,
              fire |-> flip /\ funds, corrected |-> FALSE]
    ELSE [base_price |-> b, highest |-> high, buying_or_selling |-> FALSE,
          fire |-> FALSE, corrected |-> FALSE]

\* _check_sell_signal on price p with the position ratio it fetched
check_sell_signal(p, b, g, high, bos, auto, ratio, funds) ==
    IF auto /\ p * 1000 >= get_upper_band(b, g) /\ ratio < MIN_POSITION_RATIO
    THEN [base_price |-> p, highest |-> None, buying_or_selling |-> bos,
          fire |-> FALSE, corrected |-> TRUE]
    ELSE IF p * 1000 >= get_upper_band(b, g)
    THEN LET new_highest == IF high = None THEN Some(p) ELSE Some(Max(high[1], p))
             th == flip_threshold(g)
             flip == Truthy(new_highest) /\ p * th.den <= new_highest[1] * (th.den - th.num)
         IN  [base_price |-> b, highest |-> new_highest, buying_or_selling |-> ~flip,
              fire |-> flip /\ funds, corrected |-> FALSE]
    ELSE [base_price |-> b, highest |-> high, buying_or_selling |-> FALSE,
          fire |-> FALSE, corrected |-> FALSE]

\* ManagerAdvancedRisk.multi_layer_check, given the ratio _get_position_ratio returned
multi_layer_check(ratio) ==
    ratio < RISK_MIN_POSITION_RATIO \/ ratio > RISK_MAX_POSITION_RATIO

\* the test of the except branch: the Chinese phrase in str(e) or
\* "Insufficient" in str(e); Python's "in" on strings is case-sensitive
is_insufficient_error(text) ==
    text \in {"Insufficient balance", "zi jin bu zu"}

FundsAnswer(f) == ensure_trading_funds(f.needed, f.available, f.funding, f.transfer_ok)

----------------------------------------------------------------------------
(* The state after construction, TraderGrid.__init__ *)

Init ==
    /\ initialized = FALSE
    /\ AUTO_ADJUST_BASE_PRICE \in BOOLEAN
    /\ base_price \in InitialBasePrices
    /\ grid_size = INITIAL_GRID
    /\ highest = None
    /\ lowest = None
    /\ current_price = None
    /\ buying_or_selling = FALSE
    /\ active_orders = [s \in Sides |-> None]
    /\ new_trades = << >>
    /\ pc = "loop"
    /\ side = "none"
    /\ retry_count = 0
    /\ result = "none"
    /\ signal = "none"
    /\ funds_ok = FALSE
    /\ corrected = FALSE
    /\ episode = [on |-> FALSE, ticks |-> 0, buy |-> 0]
    /\ gw = "none"
    /\ error_text = ""
    /\ order_price = 0
    /\ placed = 0
    /\ cancelled = 0
    /\ sweeps = 0
    /\ faults = 0
    /\ base_before = 0
    /\ untracked = FALSE
    /\ call = [fn |-> "none"]

----------------------------------------------------------------------------
(* main_loop: one action per path through one iteration *)

\* initialize(): the base price defaults to the latest price; a failure leaves
\* the trader uninitialized and the loop tries again
Initialize ==
    /\ pc = "loop"
    /\ ~initialized
    /\ \E p \in StartPrices :
          LET b == IF base_price <= 0 THEN p ELSE base_price
          IN  /\ base_price' = b
              /\ initialized' = (b > 0)
              /\ episode' = [on |-> b = 1000 /\ grid_size = 20, ticks |-> 0, buy |-> 0]
    /\ UNCHANGED << AUTO_ADJUST_BASE_PRICE, grid_size, highest, lowest, current_price,
                    buying_or_selling, active_orders, pc, signal, funds_ok, corrected >>
    /\ UNCHANGED execVars
    /\ UNCHANGED << call, untracked >>

\* the sell check and then the buy check of one tick on price p
SellCheck(p, ratio, funds) ==
    check_sell_signal(p, base_price, grid_size, highest, buying_or_selling,
                      AUTO_ADJUST_BASE_PRICE, ratio, funds)

BuyCheck(p, s, funds) ==
    check_buy_signal(p, s.base_price, grid_size, lowest, s.buying_or_selling, funds)

\* the ticks so far follow EpisodePrices with funds sufficient, the base price
\* 100 and the grid size 2 %: one more tick
FollowEpisode(p, funds, sig) ==
    IF episode.on /\ episode.ticks < Len(EpisodePrices)
       /\ base_price = 1000 /\ grid_size = 20
       /\ p = EpisodePrices[episode.ticks + 1] /\ funds
    THEN [on |-> TRUE, ticks |-> episode.ticks + 1,
          buy |-> IF episode.buy = 0 /\ sig = "buy" THEN episode.ticks + 1
                  ELSE episode.buy]
    ELSE [on |-> FALSE, ticks |-> 0, buy |-> 0]

\* the locals of execute_order and what is recorded about the call, when no call runs
ExecIdle ==
    /\ side' = "none"
    /\ retry_count' = 0
    /\ result' = "none"
    /\ gw' = "none"
    /\ error_text' = ""
    /\ order_price' = 0
    /\ placed' = 0
    /\ cancelled' = 0
    /\ sweeps' = 0
    /\ faults' = 0
    /\ new_trades' = << >>
    /\ base_before' = 0

\* execute_order(sd) is entered: its locals are fresh
EnterExecute(sd) ==
    /\ pc' = "exec"
    /\ side' = sd
    /\ retry_count' = 0
    /\ result' = "none"
    /\ gw' = "none"
    /\ error_text' = ""
    /\ order_price' = 0
    /\ placed' = 0
    /\ cancelled' = 0
    /\ sweeps' = 0
    /\ faults' = 0
    /\ new_trades' = << >>
    /\ base_before' = base_price'
    /\ UNCHANGED << call, untracked >>

\* get_latest_price() gave nothing: sleep and continue
TickNoPrice ==
    /\ pc = "loop"
    /\ initialized
    /\ UNCHANGED vars

\* the sell signal fires: execute_order("sell")
TickSell ==
    /\ pc = "loop"
    /\ initialized
    /\ \E p \in Prices, ratio \in Ratios, f \in FundsCases :
          LET s == SellCheck(p, ratio, FundsAnswer(f))
          IN  /\ s.fire
              /\ current_price' = Some(p)
              /\ base_price' = s.base_price
              /\ highest' = s.highest
              /\ buying_or_selling' = s.buying_or_selling
              /\ signal' = "sell"
              /\ funds_ok' = FundsAnswer(f)
              /\ corrected' = s.corrected
              /\ episode' = FollowEpisode(p, FundsAnswer(f), "sell")
    /\ EnterExecute("sell")
    /\ UNCHANGED << initialized, AUTO_ADJUST_BASE_PRICE, grid_size, lowest,
                    active_orders >>

\* the sell signal does not fire, the buy signal does: execute_order("buy")
TickBuy ==
    /\ pc = "loop"
    /\ initialized
    /\ \E p \in Prices, ratio \in Ratios, f \in FundsCases :
          LET s == SellCheck(p, ratio, FundsAnswer(f))
              b == BuyCheck(p, s, FundsAnswer(f))
          IN  /\ ~s.fire
              /\ b.fire
              /\ current_price' = Some(p)
              /\ base_price' = s.base_price
              /\ highest' = s.highest
              /\ lowest' = b.lowest
              /\ buying_or_selling' = b.buying_or_selling
              /\ signal' = "buy"
              /\ funds_ok' = FundsAnswer(f)
              /\ corrected' = s.corrected
              /\ episode' = FollowEpisode(p, FundsAnswer(f), "buy")
    /\ EnterExecute("buy")
    /\ UNCHANGED << initialized, AUTO_ADJUST_BASE_PRICE, grid_size, active_orders >>

\* neither signal fires: the loop goes on to the risk gate
TickNoSignal ==
    /\ pc = "loop"
    /\ initialized
    /\ \E p \in Prices, ratio \in Ratios, f \in FundsCases :
          LET s == SellCheck(p, ratio, FundsAnswer(f))
              b == BuyCheck(p, s, FundsAnswer(f))
          IN  /\ ~s.fire
              /\ ~b.fire
              /\ current_price' = Some(p)
              /\ base_price' = s.base_price
              /\ highest' = s.highest
              /\ lowest' = b.lowest
              /\ buying_or_selling' = b.buying_or_selling
              /\ signal' = "none"
              /\ funds_ok' = FundsAnswer(f)
              /\ corrected' = s.corrected
              /\ episode' = FollowEpisode(p, FundsAnswer(f), "none")
    /\ pc' = "risk"
    /\ UNCHANGED << initialized, AUTO_ADJUST_BASE_PRICE, grid_size, active_orders >>
    /\ UNCHANGED execVars
    /\ UNCHANGED << call, untracked >>

\* multi_layer_check() halts the tick: sleep and continue
RiskHalt ==
    /\ pc = "risk"
    /\ \E risk \in Ratios : multi_layer_check(risk)
    /\ pc' = "loop"
    /\ UNCHANGED << initialized, AUTO_ADJUST_BASE_PRICE, active_orders >>
    /\ UNCHANGED tickVars
    /\ UNCHANGED gridVars
    /\ UNCHANGED execVars
    /\ UNCHANGED << call, untracked >>

\* the risk gate passes, S1 runs, the adjustment timer is not due or a breach is
\* being monitored
NoAdjust ==
    /\ pc = "risk"
    /\ \E risk \in Ratios : ~multi_layer_check(risk)
    /\ \E v \in Volatilities, elapsed \in Elapsed :
          ~(elapsed > calculate_dynamic_interval_seconds(v) /\ ~buying_or_selling)
    /\ pc' = "loop"
    /\ UNCHANGED << initialized, AUTO_ADJUST_BASE_PRICE, active_orders >>
    /\ UNCHANGED tickVars
    /\ UNCHANGED gridVars
    /\ UNCHANGED execVars
    /\ UNCHANGED << call, untracked >>

\* an adjustment that also moves the base price to the current price
AdjustGrid_recentres ==
    /\ pc = "risk"
    /\ \E risk \in Ratios : ~multi_layer_check(risk)
    /\ \E v \in Volatilities, elapsed \in Elapsed :
          elapsed > calculate_dynamic_interval_seconds(v) /\ ~buying_or_selling
    /\ \E v \in Volatilities : grid_size' = adjust_grid_size(v, INITIAL_GRID)
    /\ base_price' = current_price[1]
    /\ pc' = "loop"
    /\ UNCHANGED << initialized, AUTO_ADJUST_BASE_PRICE, highest, lowest,
                    buying_or_selling, active_orders >>
    /\ UNCHANGED tickVars
    /\ UNCHANGED execVars
    /\ UNCHANGED << call, untracked >>

\* the risk gate passes, S1 runs, the timer is due and no breach is being
\* monitored: adjust_grid_size()
AdjustGrid ==
    /\ pc = "risk"
    /\ \E risk \in Ratios : ~multi_layer_check(risk)
    /\ \E v \in Volatilities, elapsed \in Elapsed :
          elapsed > calculate_dynamic_interval_seconds(v) /\ ~buying_or_selling
    /\ \E v \in Volatilities : grid_size' = adjust_grid_size(v, INITIAL_GRID)
    /\ pc' = "loop"
    /\ UNCHANGED << initialized, AUTO_ADJUST_BASE_PRICE, base_price, highest, lowest,
                    buying_or_selling, active_orders >>
    /\ UNCHANGED tickVars
    /\ UNCHANGED execVars
    /\ UNCHANGED << call, untracked >>

----------------------------------------------------------------------------
(* execute_order: an attempt runs from the order book to the placement of the *)
(* order, waits the settle delay, and then settles the order.                 *)

\* ManagerOrder.add_trade: append, keep the last HISTORY_LIMIT records
add_trade(history, trade) ==
    LET h == Append(history, trade)
    IN  IF Len(h) > HISTORY_LIMIT
        THEN SubSeq(h, Len(h) - HISTORY_LIMIT + 1, Len(h))
        ELSE h

\* what an action of execute_order leaves alone outside the call
LoopFrame ==
    /\ UNCHANGED << initialized, AUTO_ADJUST_BASE_PRICE, side, base_before, call >>
    /\ UNCHANGED tickVars
    /\ UNCHANGED untracked

\* the end of an attempt whose order was not cancelled: the marker is cleared
\* and the order is left to itself; left_open says that the cancellation
\* was not accepted
NextAttemptLeaving(left_open) ==
    /\ retry_count' = retry_count + 1
    /\ order_price' = 0
    /\ pc' = "exec"
    /\ untracked' = (untracked \/ left_open)
    /\ UNCHANGED << result, sweeps, new_trades >>
    /\ UNCHANGED gridVars
    /\ UNCHANGED << initialized, AUTO_ADJUST_BASE_PRICE, side, base_before, call >>
    /\ UNCHANGED tickVars

\* the end of an unfilled attempt and the except branch: one more retry, then
\* the loop condition retry_count < max_retries is evaluated again
NextAttempt ==
    /\ retry_count' = retry_count + 1
    /\ order_price' = 0
    /\ pc' = "exec"
    /\ UNCHANGED << result, sweeps, new_trades >>
    /\ UNCHANGED gridVars
    /\ LoopFrame

\* return False
ReturnFailure ==
    /\ order_price' = 0
    /\ result' = "failure"
    /\ pc' = "done"
    /\ UNCHANGED << sweeps, new_trades >>
    /\ UNCHANGED gridVars
    /\ LoopFrame

\* fetch_order_book raises
BookError ==
    /\ pc = "exec"
    /\ retry_count < max_retries
    /\ faults < MaxFaults
    /\ faults' = faults + 1
    /\ gw' = "book_error"
    /\ error_text' = ""
    /\ NextAttempt
    /\ UNCHANGED << active_orders, placed, cancelled >>

\* an incomplete order book that costs no retry: "continue" without the
\* increment
BookEmpty_keeps_count ==
    /\ pc = "exec"
    /\ retry_count < max_retries
    /\ faults < MaxFaults
    /\ faults' = faults + 1
    /\ gw' = "book_empty"
    /\ error_text' = ""
    /\ pc' = "exec"
    /\ UNCHANGED << retry_count, order_price, result, sweeps, new_trades >>
    /\ UNCHANGED gridVars
    /\ LoopFrame
    /\ UNCHANGED << active_orders, placed, cancelled >>

\* the order book is empty or incomplete
BookEmpty ==
    /\ pc = "exec"
    /\ retry_count < max_retries
    /\ faults < MaxFaults
    /\ faults' = faults + 1
    /\ gw' = "book_empty"
    /\ error_text' = ""
    /\ NextAttempt
    /\ UNCHANGED << active_orders, placed, cancelled >>

\* ensure_trading_funds answers False: return False
FundsFail ==
    /\ pc = "exec"
    /\ retry_count < max_retries
    /\ \E f \in FundsCases : ~FundsAnswer(f)
    /\ faults < MaxFaults
    /\ faults' = faults + 1
    /\ gw' = "funds_short"
    /\ error_text' = ""
    /\ ReturnFailure
    /\ UNCHANGED << active_orders, retry_count, placed, cancelled >>

\* create_order raises; the marker of the side is None, so nothing is cancelled
CreateError ==
    /\ pc = "exec"
    /\ retry_count < max_retries
    /\ \E f \in FundsCases : FundsAnswer(f)
    /\ faults < MaxFaults
    /\ faults' = faults + 1
    /\ gw' = "create_error"
    /\ \E e \in ErrorTexts : ~is_insufficient_error(e) /\ error_text' = e
    /\ NextAttempt
    /\ UNCHANGED << active_orders, placed, cancelled >>

\* create_order raises an error whose text holds one of the two phrases:
\* the except branch counts the retry and returns False
CreateInsufficient ==
    /\ pc = "exec"
    /\ retry_count < max_retries
    /\ \E f \in FundsCases : FundsAnswer(f)
    /\ faults < MaxFaults
    /\ faults' = faults + 1
    /\ retry_count' = retry_count + 1
    /\ gw' = "create_error"
    /\ \E e \in ErrorTexts : is_insufficient_error(e) /\ error_text' = e
    /\ ReturnFailure
    /\ UNCHANGED << active_orders, placed, cancelled >>

\* the limit order is created at the top of the book and becomes the order in flight
PlaceOrder ==
    /\ pc = "exec"
    /\ retry_count < max_retries
    /\ \E f \in FundsCases : FundsAnswer(f)
    /\ \E price \in BookPrices : order_price' = price
    /\ placed' = placed + 1
    /\ active_orders' = [active_orders EXCEPT ![side] = Some(placed + 1)]
    /\ gw' = "placed"
    /\ error_text' = ""
    /\ pc' = "wait"
    /\ UNCHANGED << retry_count, result, cancelled, sweeps, faults, new_trades >>
    /\ UNCHANGED gridVars
    /\ LoopFrame

\* a commit that takes the ticker price for the fill price
Commit_ticker_price(sweep_calls) ==
    /\ base_price' = current_price[1]
    /\ active_orders' = [active_orders EXCEPT ![side] = None]
    /\ new_trades' = add_trade(new_trades,
                                [side |-> side, price |-> order_price,
                                 order_id |-> active_orders[side][1]])
    /\ sweeps' = sweeps + sweep_calls
    /\ result' = "order"
    /\ pc' = "done"
    /\ UNCHANGED << grid_size, highest, lowest, buying_or_selling, retry_count,
                    order_price, placed, cancelled, faults >>
    /\ LoopFrame

\* the order is found closed: commit the fill and return the order
Commit(sweep_calls) ==
    /\ base_price' = order_price
    /\ active_orders' = [active_orders EXCEPT ![side] = None]
    /\ new_trades' = add_trade(new_trades,
                                [side |-> side, price |-> order_price,
                                 order_id |-> active_orders[side][1]])
    /\ sweeps' = sweeps + sweep_calls
    /\ result' = "order"
    /\ pc' = "done"
    /\ UNCHANGED << grid_size, highest, lowest, buying_or_selling, retry_count,
                    order_price, placed, cancelled, faults >>
    /\ LoopFrame

\* fetch_order after the settle delay reports the order closed
Filled ==
    /\ pc = "wait"
    /\ gw' = "closed"
    /\ error_text' = ""
    /\ Commit(1)

\* fetch_order raises: the except branch cancels the order in flight, whether
\* or not the gateway accepts the cancellation the marker is cleared
FetchError ==
    /\ pc = "wait"
    /\ faults < MaxFaults
    /\ faults' = faults + 1
    /\ \E cancel_ok \in BOOLEAN :
          /\ cancelled' = IF cancel_ok THEN cancelled + 1 ELSE cancelled
          /\ NextAttemptLeaving(~cancel_ok)
    /\ active_orders' = [active_orders EXCEPT ![side] = None]
    /\ gw' = "fetch_error"
    /\ error_text' = ""
    /\ UNCHANGED placed

\* the order is not closed and the gateway accepts the cancellation
Cancelled ==
    /\ pc = "wait"
    /\ cancelled' = cancelled + 1
    /\ active_orders' = [active_orders EXCEPT ![side] = None]
    /\ gw' = "cancelled"
    /\ error_text' = ""
    /\ NextAttempt
    /\ UNCHANGED << placed, faults >>

\* the order is not closed and cancel_order raises: check the order again
CancelError ==
    /\ pc = "wait"
    /\ faults < MaxFaults
    /\ faults' = faults + 1
    /\ gw' = "cancel_error"
    /\ error_text' = ""
    /\ pc' = "recheck"
    /\ UNCHANGED << active_orders, retry_count, result, order_price, placed, cancelled,
                    sweeps, new_trades >>
    /\ UNCHANGED gridVars
    /\ LoopFrame

\* the second fetch_order reports the order closed
RecheckFilled ==
    /\ pc = "recheck"
    /\ gw' = "recheck_closed"
    /\ error_text' = ""
    /\ Commit(2)

\* a second check that leaves the marker of the unfilled order in place
RecheckUnfilled_keeps_marker ==
    /\ pc = "recheck"
    /\ gw' = "recheck_open"
    /\ error_text' = ""
    /\ NextAttempt
    /\ UNCHANGED << active_orders, placed, cancelled, faults >>

\* the second fetch_order reports the order still not closed, or raises
RecheckUnfilled ==
    /\ pc = "recheck"
    /\ active_orders' = [active_orders EXCEPT ![side] = None]
    /\ gw' = "recheck_open"
    /\ error_text' = ""
    /\ NextAttemptLeaving(TRUE)
    /\ UNCHANGED << placed, cancelled, faults >>

\* a loop that gives up one attempt early
Exhausted_one_early ==
    /\ pc = "exec"
    /\ retry_count >= max_retries - 1
    /\ ReturnFailure
    /\ UNCHANGED << active_orders, retry_count, placed, cancelled, faults, gw,
                    error_text >>

\* retry_count has reached max_retries: return False
Exhausted ==
    /\ pc = "exec"
    /\ retry_count >= max_retries
    /\ ReturnFailure
    /\ UNCHANGED << active_orders, retry_count, placed, cancelled, faults, gw,
                    error_text >>

\* execute_order has returned: the loop sleeps and starts the next tick
ExecReturn ==
    /\ pc = "done"
    /\ pc' = "loop"
    /\ ExecIdle
    /\ UNCHANGED << initialized, AUTO_ADJUST_BASE_PRICE, active_orders, call, untracked >>
    /\ UNCHANGED tickVars
    /\ UNCHANGED gridVars

\* an exception leaves the iteration (initialize, the risk check, the S1
\* controller or the adaptive controller raises): the except branch of
\* main_loop logs it and sleeps 30 seconds
TickRaises ==
    /\ pc \in {"loop", "risk"}
    /\ pc' = "cooldown"
    /\ UNCHANGED << initialized, AUTO_ADJUST_BASE_PRICE, active_orders, call, untracked >>
    /\ UNCHANGED tickVars
    /\ UNCHANGED gridVars
    /\ UNCHANGED execVars

\* a loop whose except branch gives up instead of sleeping
Cooldown_gives_up ==
    /\ pc = "cooldown"
    /\ pc' = "stopped"
    /\ UNCHANGED << initialized, AUTO_ADJUST_BASE_PRICE, active_orders, call, untracked >>
    /\ UNCHANGED tickVars
    /\ UNCHANGED gridVars
    /\ UNCHANGED execVars

\* the 30 seconds are over: while True starts the next iteration
Cooldown ==
    /\ pc = "cooldown"
    /\ pc' = "loop"
    /\ UNCHANGED << initialized, AUTO_ADJUST_BASE_PRICE, active_orders, call, untracked >>
    /\ UNCHANGED tickVars
    /\ UNCHANGED gridVars
    /\ UNCHANGED execVars

Next ==
    \/ Initialize
    \/ TickNoPrice
    \/ TickSell
    \/ TickBuy
    \/ TickNoSignal
    \/ RiskHalt
    \/ NoAdjust
    \/ AdjustGrid
    \/ BookError
    \/ BookEmpty
    \/ FundsFail
    \/ CreateError
    \/ CreateInsufficient
    \/ PlaceOrder
    \/ Filled
    \/ FetchError
    \/ Cancelled
    \/ CancelError
    \/ RecheckFilled
    \/ RecheckUnfilled
    \/ Exhausted
    \/ ExecReturn
    \/ TickRaises
    \/ Cooldown

Spec == Init /\ [][Next]_vars

\* the prices of the ticks of the loop whose progress is checked: two at the
\* lower band and two at the upper band of the base price 100.0
LoopPrices == {950, 955, 1025, 1030}

LoopTick == current_price' \in {Some(p) : p \in LoopPrices}

\* the steps of Next, with the ticks on LoopPrices
LoopNext ==
    \/ Initialize
    \/ TickNoPrice
    \/ TickSell /\ LoopTick
    \/ TickBuy /\ LoopTick
    \/ TickNoSignal /\ LoopTick
    \/ RiskHalt
    \/ NoAdjust
    \/ AdjustGrid
    \/ BookError
    \/ BookEmpty
    \/ FundsFail
    \/ CreateError
    \/ CreateInsufficient
    \/ PlaceOrder
    \/ Filled
    \/ FetchError
    \/ Cancelled
    \/ CancelError
    \/ RecheckFilled
    \/ RecheckUnfilled
    \/ Exhausted
    \/ ExecReturn
    \/ TickRaises
    \/ Cooldown

\* the loop is one coroutine whose awaits return: a step that is possible is
\* eventually taken
FairSpec == Init /\ [][LoopNext]_vars /\ WF_vars(LoopNext)

----------------------------------------------------------------------------
(* Components called on their own: each action below makes one call of one *)
(* component on inputs drawn from bounded sets and records in the variable  *)
(* call what the component was given and what it did.  A quantity that the  *)
(* code divides is a fraction [num, den] with den > 0.                      *)

\* balances of the funds calls run over 0 .. MaxBalance
MaxBalance == 6

\* the order values (in quote currency) a funds check is asked for
AmountValues == {0, 4, 10}

\* the latest price a funds check can read; 0 stands for a missing price
FundsPrices == {0, 1, 2, 4}

\* the side argument: execute_order passes "buy" or "sell", the balance checks
\* pass "BUY" or "SELL"; "hold" stands for any other text
SideArguments == {"buy", "SELL", "hold"}

\* str.upper() on the side arguments
Upper(s) ==
    CASE s = "buy" -> "BUY"
      [] s = "sell" -> "SELL"
      [] s = "hold" -> "HOLD"
      [] OTHER -> s

\* ManagerPosition.quote_currency and base_currency of the pair BNB/USDT
quote_currency == "USDT"

base_currency == "BNB"

\* the attributes an ExchangeClient object has: the methods of the class, a
\* method whose name starts with two underscores under its mangled name, and
\* the fields __init__ assigns
ExchangeClientAttributes ==
    { "load_markets", "fetch_ohlcv", "create_order", "create_market_order",
      "fetch_order", "fetch_open_orders", "cancel_order", "close",
      "fetch_order_book", "fetch_my_trades", "fetch_balance",
      "fetch_funding_balance", "fetch_ticker", "transfer_to_savings",
      "transfer_to_spot", "_ExchangeClient__sync_time",
      "_ExchangeClient__get_flexible_product_id",
      "logger", "symbol", "exchange", "markets_loaded", "time_diff",
      "balance_cache", "funding_balance_cache", "cache_ttl" }

\* ExchangeClient.transfer_to_spot: the look-up self.get_flexible_product_id
\* comes first and raises AttributeError when the object has no such
\* attribute; otherwise the amount is formatted (2 decimals for USDT, 8 for
\* BNB) and one redemption is posted, which the exchange performs or refuses
client_transfer_to_spot(asset, amount, redeem_ok) ==
    IF "get_flexible_product_id" \notin ExchangeClientAttributes
    THEN [raised |-> TRUE, redeems |-> << >>]
    ELSE [raised |-> ~redeem_ok,
          redeems |-> << [asset |-> asset, amount |-> amount,
                          decimals |-> IF asset = "USDT" THEN 2 ELSE 8] >>]

\* ManagerPosition.transfer_to_spot: True unless the client raises
manager_transfer_to_spot(currency, amount, redeem_ok) ==
    LET r == client_transfer_to_spot(currency, amount, redeem_ok)
    IN  [ok |-> ~r.raised, redeems |-> r.redeems]

\* a funds check that pulls whatever the savings hold when spot and savings
\* together fall short
ensure_trading_funds_effects_pulls_rest(side_arg, amount_value, price, spot, savings, redeem_ok) ==
    LET sd == Upper(side_arg)
        currency == IF sd = "BUY" THEN quote_currency ELSE base_currency
        needed == IF sd = "BUY" THEN [num |-> amount_value, den |-> 1]
                  ELSE IF price > 0 THEN [num |-> amount_value, den |-> price]
                  ELSE [num |-> 0, den |-> 1]
        amount == IF (spot + savings) * needed.den < needed.num
                  THEN [num |-> savings, den |-> 1]
                  ELSE [num |-> (needed.num - spot * needed.den) * 105,
                        den |-> needed.den * 100]
        t == manager_transfer_to_spot(currency, amount, redeem_ok)
    IN  IF sd \notin {"BUY", "SELL"}
        THEN [result |-> FALSE, transfers |-> << >>, redeems |-> << >>]
        ELSE IF spot * needed.den >= needed.num
        THEN [result |-> TRUE, transfers |-> << >>, redeems |-> << >>]
        ELSE [result |-> t.ok,
              transfers |-> << [currency |-> currency, amount |-> amount] >>,
              redeems |-> t.redeems]

\* ManagerPosition.ensure_trading_funds with what it does: the value it
\* returns, the transfers it asks the client for, and the redemptions that
\* reach the exchange.  spot and savings are the balances it reads (a failed
\* read gives 0), price is the latest price it reads.
ensure_trading_funds_effects(side_arg, amount_value, price, spot, savings, redeem_ok) ==
    LET sd == Upper(side_arg)
        currency == IF sd = "BUY" THEN quote_currency ELSE base_currency
        needed == IF sd = "BUY" THEN [num |-> amount_value, den |-> 1]
                  ELSE IF price > 0 THEN [num |-> amount_value, den |-> price]
                  ELSE [num |-> 0, den |-> 1]
        amount == [num |-> (needed.num - spot * needed.den) * 105,
                   den |-> needed.den * 100]
        t == manager_transfer_to_spot(currency, amount, redeem_ok)
    IN  IF sd \notin {"BUY", "SELL"}
        THEN [result |-> FALSE, transfers |-> << >>, redeems |-> << >>]
        ELSE IF spot * needed.den >= needed.num
        THEN [result |-> TRUE, transfers |-> << >>, redeems |-> << >>]
        ELSE IF (spot + savings) * needed.den < needed.num
        THEN [result |-> FALSE, transfers |-> << >>, redeems |-> << >>]
        ELSE [result |-> t.ok,
              transfers |-> << [currency |-> currency, amount |-> amount] >>,
              redeems |-> t.redeems]

\* no component has been called yet
NoCallYet == call.fn = "none"

\* one call of ensure_trading_funds
CallEnsureTradingFunds ==
    /\ NoCallYet
    /\ \E sd \in SideArguments, v \in AmountValues, p \in FundsPrices,
          spot \in 0..MaxBalance, savings \in 0..MaxBalance, ok \in BOOLEAN :
          call' = [fn |-> "ensure_trading_funds", side |-> sd, amount_value |-> v,
                   price |-> p, spot |-> spot, savings |-> savings, redeem_ok |-> ok,
                   out |-> ensure_trading_funds_effects(sd, v, p, spot, savings, ok)]
    /\ UNCHANGED loopVars

\* the parameters of ManagerAdvancedRisk.__init__ after self
RiskManagerParameters == << "config", "trader", "exchange" >>

\* the arguments main() constructs the risk manager with
MainRiskManagerArguments == << "risk_manager_cfg", "position_manager" >>

\* the attributes a ManagerPosition object has
ManagerPositionAttributes ==
    { "initialize", "_load_symbol_info", "symbol_info", "base_currency",
      "quote_currency", "get_latest_price", "get_available_balance",
      "get_total_assets", "get_position_value", "get_position_ratio",
      "adjust_amount_precision", "transfer_to_spot", "transfer_to_savings",
      "ensure_trading_funds", "transfer_excess_funds",
      "logger", "cfg", "exchange", "_price_cache", "_assets_cache",
      "_symbol_info", "_last_logged_assets" }

\* the attributes of the object bound to a parameter of the risk manager
AttributesOf(argument) ==
    IF argument = "position_manager" THEN ManagerPositionAttributes
    ELSE IF argument = "exchange" THEN ExchangeClientAttributes
    ELSE {}

\* ManagerAdvancedRisk(*arguments): Python raises TypeError when a required
\* positional parameter gets no argument
construct_risk_manager(arguments) ==
    IF Len(arguments) = Len(RiskManagerParameters)
    THEN [raised |-> "none", trader |-> arguments[2]]
    ELSE [raised |-> "TypeError", trader |-> "none"]

\* ManagerAdvancedRisk._get_position_ratio as a fraction: the position value
\* is base * price, read through self.trader.symbol_info and
\* self.trader._get_latest_price(); any exception gives 0
risk_get_position_ratio(trader, base, usdt, price) ==
    LET position_value == base * price
        total_assets == position_value + usdt
    IN  IF ~({"symbol_info", "_get_latest_price"} \subseteq AttributesOf(trader))
        THEN [num |-> 0, den |-> 1]
        ELSE IF total_assets = 0 THEN [num |-> 0, den |-> 1]
        ELSE [num |-> position_value, den |-> total_assets]

\* ManagerAdvancedRisk.multi_layer_check on the manager main() constructed:
\* "True" on a breach, "None" (no return statement is reached) otherwise;
\* last_logged is last_position_ratio in percent, None before the first call,
\* and decides only what is logged
risk_multi_layer_check(manager, base, usdt, price, last_logged) ==
    IF manager.raised # "none" THEN manager.raised
    ELSE LET ratio == risk_get_position_ratio(manager.trader, base, usdt, price)
         IN  IF ratio.num * 100 < RISK_MIN_POSITION_RATIO * ratio.den THEN "True"
             ELSE IF ratio.num * 100 > RISK_MAX_POSITION_RATIO * ratio.den THEN "True"
             ELSE "None"

\* ratios logged last, in percent
LoggedRatios == {None, Some(5), Some(50)}

\* main() constructs the risk manager and the control loop calls its check
CallMultiLayerCheck ==
    /\ NoCallYet
    /\ \E base \in 0..MaxBalance, usdt \in 0..MaxBalance, p \in FundsPrices,
          last \in LoggedRatios :
          call' = [fn |-> "multi_layer_check", base |-> base, usdt |-> usdt,
                   price |-> p, last_logged |-> last,
                   out |-> risk_multi_layer_check(
                              construct_risk_manager(MainRiskManagerArguments),
                              base, usdt, p, last)]
    /\ UNCHANGED loopVars

\* volatilities the two lookups are asked about, in hundredths: every value of
\* the ranges below the last one, and the values around the end of the last
VolatilityValues == (0 .. 130) \cup {99899, 99900, 99901}

\* the ranges of table t that hold v
MatchingRanges(t, v) == {i \in 1..Len(t) : t[i].lo <= v /\ v < t[i].hi}

\* the two lookups on one volatility: adjust_grid_size on a trader constructed
\* with INITIAL_GRID, and _calculate_dynamic_interval_seconds
CallBucketLookup ==
    /\ NoCallYet
    /\ \E v \in VolatilityValues :
          call' = [fn |-> "bucket_lookup", volatility |-> v,
                   grid_matches |-> Cardinality(MatchingRanges(GridRanges, v)),
                   interval_matches |-> Cardinality(MatchingRanges(IntervalRanges, v)),
                   grid |-> adjust_grid_size(v, INITIAL_GRID),
                   seconds |-> calculate_dynamic_interval_seconds(v)]
    /\ UNCHANGED loopVars

\* values of TraderGridConfig.INITIAL_GRID, which the settings accept without
\* a range check, in tenths of a percent
InitialGrids == {5, 10, 20, 40, 50}

\* adjustments made to one trader
MaxAdjusts == 2

\* TraderGrid.__init__: grid_size = config.INITIAL_GRID
CallConstructTrader ==
    /\ NoCallYet
    /\ \E g \in InitialGrids :
          call' = [fn |-> "TraderGrid", INITIAL_GRID |-> g, grid_size |-> g,
                   adjusts |-> 0]
    /\ UNCHANGED loopVars

\* adjust_grid_size on that trader; when _calculate_volatility answers a value
\* the log line cannot format the call leaves grid_size as it was
CallAdjustGridSize ==
    /\ call.fn = "TraderGrid"
    /\ call.adjusts < MaxAdjusts
    /\ \E v \in Volatilities :
          call' = [call EXCEPT !.grid_size = adjust_grid_size(v, call.INITIAL_GRID),
                               !.adjusts = @ + 1]
    /\ UNCHANGED loopVars

\* base prices the bands are computed for, in tenths
BandBasePrices == (1 .. 20) \cup {970, 1000}

\* grid sizes of [1.0, 4.0], in tenths of a percent
ValidGridSizes == GRID_MIN .. GRID_MAX

\* _get_upper_band and _get_lower_band on one trader
CallBands ==
    /\ NoCallYet
    /\ \E b \in BandBasePrices, g \in ValidGridSizes :
          call' = [fn |-> "bands", base_price |-> b, grid_size |-> g,
                   upper |-> get_upper_band(b, g), lower |-> get_lower_band(b, g)]
    /\ UNCHANGED loopVars

\* the extremum tracked when the two checks are called, in tenths
TrackedExtremum == 1000

\* how far the price has moved back from the extremum, in tenths
MaxMove == 10

\* the base price of the trader whose buy check is called: every price used
\* lies at or below its lower band
BuySideBase == 2000

\* the base price of the trader whose sell check is called: every price used
\* lies at or above its upper band
SellSideBase == 500

\* flip_threshold, _check_buy_signal on a price d above the tracked low and
\* _check_sell_signal on a price d below the tracked high, funds sufficient
CallSignalChecks ==
    /\ NoCallYet
    /\ \E g \in ValidGridSizes, d \in 0 .. MaxMove :
          LET up == TrackedExtremum + d
              down == TrackedExtremum - d
          IN  call' = [fn |-> "signal_checks", grid_size |-> g,
                       threshold |-> flip_threshold(g),
                       buy_price |-> up, sell_price |-> down,
                       buy |-> check_buy_signal(up, BuySideBase, g,
                                   Some(TrackedExtremum), TRUE, TRUE).fire,
                       sell |-> check_sell_signal(down, SellSideBase, g,
                                   Some(TrackedExtremum), TRUE, FALSE, 50, TRUE).fire]
    /\ UNCHANGED loopVars

\* tracked highs a tick can start from
TrackedHighs == {None, Some(1030)}

\* the checks of one iteration of main_loop on price p: the sell check, the buy
\* check when the sell check answers false, and the order the iteration places
CallTickChecks ==
    /\ NoCallYet
    /\ \E p \in Prices, b \in Prices, g \in {GRID_MIN, INITIAL_GRID, GRID_MAX},
          high \in TrackedHighs, auto \in BOOLEAN, ratio \in Ratios, funds \in BOOLEAN :
          LET s == check_sell_signal(p, b, g, high, FALSE, auto, ratio, funds)
              c == check_buy_signal(p, s.base_price, g, None, s.buying_or_selling, funds)
          IN  call' = [fn |-> "tick_checks", price |-> p, base_price |-> b,
                       grid_size |-> g, highest |-> high,
                       AUTO_ADJUST_BASE_PRICE |-> auto, position_ratio |-> ratio,
                       funds |-> funds,
                       base_price_after |-> s.base_price,
                       highest_after |-> s.highest,
                       order |-> IF s.fire THEN "sell"
                                 ELSE IF c.fire THEN "buy" ELSE "none"]
    /\ UNCHANGED loopVars

\* ActionerS1Config.S1_SELL_TARGET_PCT and S1_BUY_TARGET_PCT, in percent
S1_SELL_TARGET_PCT == 50

S1_BUY_TARGET_PCT == 70

\* ActionerS1.s1_daily_high and s1_daily_low, in tenths: not yet available, the
\* high above the low, and the high below the low (what candles whose high lies
\* below their low leave)
S1Levels ==
    { None, Some([high |-> 1025, low |-> 955]), Some([high |-> 955, low |-> 1025]) }

\* what get_latest_price answers the controller, in tenths; 0 when it has none
S1Prices == {0, 950, 1000, 1030}

\* position ratios in percent, position values and total assets in USDT, and
\* spot balances in BNB the controller reads
S1Ratios == {40, 60, 80}

S1PositionValues == {0, 40, 60, 80}

S1TotalAssets == {0, 100}

S1Balances == {0, 1}

\* _execute_s1_adjustment: the calls of create_market_order it makes; the order
\* is skipped when the amount fails a limit or the funds check fails
execute_s1_adjustment(s1_side, accepted) ==
    IF accepted THEN << IF s1_side = "SELL" THEN "sell" ELSE "buy" >> ELSE << >>

\* a check whose low level test is a second if: both branches can run and
\* each places its order
s1_check_and_execute_two_ifs(levels, price, position_pct, position_value, total_assets, bnb_balance, accepted) ==
    IF levels = None \/ price <= 0 \/ total_assets <= 0
    THEN [sell_condition |-> FALSE, buy_considered |-> FALSE, action |-> "NONE",
          amount |-> 0, orders |-> << >>]
    ELSE LET sell_condition == /\ price > levels[1].high
                               /\ position_pct > S1_SELL_TARGET_PCT
             buy_condition == /\ price < levels[1].low
                              /\ position_pct < S1_BUY_TARGET_PCT
             sell_value_needed == position_value * 100 - total_assets * S1_SELL_TARGET_PCT
             buy_value_needed == total_assets * S1_BUY_TARGET_PCT - position_value * 100
             sell_amount == Min(sell_value_needed * 10, bnb_balance * price * 100)
             sells == IF sell_condition /\ sell_value_needed > 0 /\ sell_amount > 0
                      THEN execute_s1_adjustment("SELL", accepted) ELSE << >>
             buys == IF buy_condition /\ buy_value_needed > 0
                     THEN execute_s1_adjustment("BUY", accepted) ELSE << >>
         IN  [sell_condition |-> sell_condition, buy_considered |-> TRUE,
              action |-> "NONE", amount |-> 0, orders |-> sells \o buys]

\* ActionerS1.check_and_execute: whether the high level test held, whether the
\* low level test was evaluated, s1_action and s1_trade_amount_bnb, and the
\* orders placed; amounts are in BNB times the price times 100
s1_check_and_execute(levels, price, position_pct, position_value, total_assets, bnb_balance, accepted) ==
    IF levels = None \/ price <= 0 \/ total_assets <= 0
    THEN [sell_condition |-> FALSE, buy_considered |-> FALSE, action |-> "NONE",
          amount |-> 0, orders |-> << >>]
    ELSE LET sell_condition == /\ price > levels[1].high
                               /\ position_pct > S1_SELL_TARGET_PCT
             buy_condition == /\ price < levels[1].low
                              /\ position_pct < S1_BUY_TARGET_PCT
             sell_value_needed == position_value * 100 - total_assets * S1_SELL_TARGET_PCT
             buy_value_needed == total_assets * S1_BUY_TARGET_PCT - position_value * 100
             s1_action == IF sell_condition
                          THEN IF sell_value_needed > 0 THEN "SELL" ELSE "NONE"
                          ELSE IF buy_condition
                          THEN IF buy_value_needed > 0 THEN "BUY" ELSE "NONE"
                          ELSE "NONE"
             s1_trade_amount_bnb ==
                 IF s1_action = "SELL"
                 THEN Min(sell_value_needed * 10, bnb_balance * price * 100)
                 ELSE IF s1_action = "BUY" THEN buy_value_needed * 10 ELSE 0
         IN  [sell_condition |-> sell_condition,
              buy_considered |-> ~sell_condition,
              action |-> s1_action,
              amount |-> s1_trade_amount_bnb,
              orders |-> IF s1_action # "NONE" /\ s1_trade_amount_bnb > 0
                         THEN execute_s1_adjustment(s1_action, accepted)
                         ELSE << >>]

\* an S1 check that re-centres the grid on the price it read
CallS1CheckAndExecute_rebases ==
    /\ NoCallYet
    /\ \E levels \in S1Levels, p \in S1Prices, pct \in S1Ratios,
          value \in S1PositionValues, total \in S1TotalAssets,
          balance \in S1Balances, accepted \in BOOLEAN :
          /\ call' = [fn |-> "s1_check_and_execute", levels |-> levels, price |-> p,
                      position_pct |-> pct, position_value |-> value,
                      total_assets |-> total, bnb_balance |-> balance,
                      out |-> s1_check_and_execute(levels, p, pct, value, total,
                                                   balance, accepted)]
          /\ base_price' = p
    /\ UNCHANGED << initialized, AUTO_ADJUST_BASE_PRICE, grid_size, highest, lowest,
                    current_price, buying_or_selling, active_orders, new_trades, pc,
                    side, retry_count, result, signal, funds_ok, corrected, episode,
                    gw, error_text, order_price, placed, cancelled, sweeps, faults,
                    base_before, untracked >>

\* check_and_execute on one tick
CallS1CheckAndExecute ==
    /\ NoCallYet
    /\ \E levels \in S1Levels, p \in S1Prices, pct \in S1Ratios,
          value \in S1PositionValues, total \in S1TotalAssets,
          balance \in S1Balances, accepted \in BOOLEAN :
          call' = [fn |-> "s1_check_and_execute", levels |-> levels, price |-> p,
                   position_pct |-> pct, position_value |-> value,
                   total_assets |-> total, bnb_balance |-> balance,
                   out |-> s1_check_and_execute(levels, p, pct, value, total,
                                                balance, accepted)]
    /\ UNCHANGED loopVars

\* daily candles the gateway can deliver: the high (index 2) and the low
\* (index 3) of each, in tenths
Candles ==
    { [high |-> 1030, low |-> 1000], [high |-> 1010, low |-> 950],
      [high |-> 990, low |-> 960] }

\* what fetch_ohlcv answers for limit = S1_LOOKBACK + 2: a list of at most that
\* many candles, oldest first
CandleLists == UNION { [1 .. n -> Candles] : n \in 0 .. S1_LOOKBACK + 2 }

\* the levels held before a refresh: none, or those of an earlier refresh
S1LevelsBefore == { None, Some([high |-> 1025, low |-> 955]) }

\* time.time() at the refresh and s1_last_data_update_ts before it
S1Now == 90000

S1LastUpdates == {0, 100}

\* a refresh that takes the last S1_LOOKBACK candles, the unclosed one included
fetch_and_calculate_s1_levels_keeps_last(fetch_ok, klines, levels, last_ts, now) ==
    IF ~fetch_ok \/ Len(klines) < S1_LOOKBACK + 1
    THEN [levels |-> levels, last_ts |-> last_ts, ok |-> FALSE]
    ELSE LET n == Len(klines)
             relevant == (n - S1_LOOKBACK + 1) .. n
         IN  [levels |-> Some([high |-> CHOOSE h \in {klines[i].high : i \in relevant} :
                                         \A i \in relevant : klines[i].high <= h,
                               low |-> CHOOSE l \in {klines[i].low : i \in relevant} :
                                         \A i \in relevant : l <= klines[i].low]),
              last_ts |-> now, ok |-> TRUE]

\* _fetch_and_calculate_s1_levels: the levels and the timestamp it leaves and
\* what it returns; relevant_klines = klines[-(S1_LOOKBACK + 1) : -1]
fetch_and_calculate_s1_levels(fetch_ok, klines, levels, last_ts, now) ==
    IF ~fetch_ok \/ Len(klines) < S1_LOOKBACK + 1
    THEN [levels |-> levels, last_ts |-> last_ts, ok |-> FALSE]
    ELSE LET n == Len(klines)
             relevant == (n - S1_LOOKBACK) .. (n - 1)
         IN  [levels |-> Some([high |-> CHOOSE h \in {klines[i].high : i \in relevant} :
                                         \A i \in relevant : klines[i].high <= h,
                               low |-> CHOOSE l \in {klines[i].low : i \in relevant} :
                                         \A i \in relevant : l <= klines[i].low]),
              last_ts |-> now, ok |-> TRUE]

\* one refresh of the S1 levels
CallS1FetchLevels ==
    /\ NoCallYet
    /\ \E fetch_ok \in BOOLEAN, klines \in CandleLists, levels \in S1LevelsBefore,
          last_ts \in S1LastUpdates :
          call' = [fn |-> "fetch_and_calculate_s1_levels", fetch_ok |-> fetch_ok,
                   klines |-> IF fetch_ok THEN klines ELSE << >>,
                   levels |-> levels, last_ts |-> last_ts,
                   out |-> fetch_and_calculate_s1_levels(fetch_ok, klines, levels,
                                                         last_ts, S1Now)]
    /\ UNCHANGED loopVars

\* _execute_s1_adjustment: the default minimum notional, in USDT, and the
\* default amount precision of adjust_amount_precision, in decimal places
S1_MIN_NOTIONAL == 10

AMOUNT_PRECISION == 3

\* adjust_amount_precision: floor(amount * 10^3) / 10^3, as thousandths of a
\* BNB, of an amount given in BNB times the price (in tenths) times 100
adjust_amount_precision(amount, price) ==
    (amount * 10 ^ AMOUNT_PRECISION) \div (price * 100)

\* an adjustment that skips the minimum notional test
execute_s1_adjustment_sized_no_notional(s1_side, amount, price, funded) ==
    LET adjusted_amount == adjust_amount_precision(amount, price)
    IN  IF adjusted_amount <= 0 \/ price <= 0 THEN << >>
        ELSE IF ~funded THEN << >>
        ELSE << [side |-> IF s1_side = "SELL" THEN "sell" ELSE "buy",
                 amount |-> adjusted_amount] >>

\* _execute_s1_adjustment with the default limits: the market orders it hands
\* to create_market_order, amounts in thousandths of a BNB; a positive amount
\* of whole thousandths is never below the minimum amount 0.0001
execute_s1_adjustment_sized(s1_side, amount, price, funded) ==
    LET adjusted_amount == adjust_amount_precision(amount, price)
    IN  IF adjusted_amount <= 0 \/ price <= 0 THEN << >>
        ELSE IF adjusted_amount * price < S1_MIN_NOTIONAL * 1000 * 10 THEN << >>
        ELSE IF ~funded THEN << >>
        ELSE << [side |-> IF s1_side = "SELL" THEN "sell" ELSE "buy",
                 amount |-> adjusted_amount] >>

\* check_and_execute on one tick, with the sizes of the orders it places
CallS1Sizing ==
    /\ NoCallYet
    /\ \E levels \in S1Levels, p \in S1Prices, pct \in S1Ratios,
          value \in S1PositionValues, total \in S1TotalAssets,
          balance \in S1Balances, funded \in BOOLEAN :
          LET d == s1_check_and_execute(levels, p, pct, value, total, balance, TRUE)
          IN  call' = [fn |-> "s1_sizing", levels |-> levels, price |-> p,
                       position_pct |-> pct, position_value |-> value,
                       total_assets |-> total, bnb_balance |-> balance,
                       funds_ok |-> funded,
                       orders |-> IF d.action # "NONE" /\ d.amount > 0
                                  THEN execute_s1_adjustment_sized(d.action, d.amount,
                                                                   p, funded)
                                  ELSE << >>]
    /\ UNCHANGED loopVars

\* transfer_excess_funds: the share of total assets held in the spot account
\* in each currency, in percent
TARGET_HOLD_PCT == 16

\* total assets in USDT, the price in tenths of a USDT, the free spot balance of
\* USDT in hundredths of a USDT and of BNB in hundredths of a BNB
SweepTotals == {0, 100}

SweepPrices == {0, 1000, 1280}

SweepQuoteBalances == {1000, 1650, 1700, 1701, 2500}

SweepBaseBalances == {10, 13, 14, 16, 17, 20}

\* ManagerPosition.transfer_excess_funds: the transfers to savings it asks the
\* exchange client for, in order, and what it returns.  The USDT amount is in
\* hundredths of a USDT; the BNB amount is the fraction num/den of a BNB.
\* exchange_ok tells whether the client's transfer_to_savings succeeds.
transfer_excess_funds(spot_quote_balance, spot_base_balance, price, total_assets, exchange_ok) ==
    IF price <= 0 \/ total_assets <= 0
    THEN [requests |-> << >>, result |-> FALSE]
    ELSE LET target_quote_hold == total_assets * TARGET_HOLD_PCT
             quote_amount == spot_quote_balance - target_quote_hold
             base_amount == [num |-> spot_base_balance * price
                                       - total_assets * TARGET_HOLD_PCT * 10,
                             den |-> 100 * price]
             quote_requests ==
                 IF spot_quote_balance > target_quote_hold /\ quote_amount > 100
                 THEN << [currency |-> quote_currency, amount |-> quote_amount] >>
                 ELSE << >>
             base_requests ==
                 IF base_amount.num > 0 /\ base_amount.num * 100 >= base_amount.den
                 THEN << [currency |-> base_currency, amount |-> base_amount] >>
                 ELSE << >>
             requests == quote_requests \o base_requests
         IN  [requests |-> requests, result |-> requests # << >> /\ exchange_ok]

\* one sweep of the spot account
CallTransferExcessFunds ==
    /\ NoCallYet
    /\ \E q \in SweepQuoteBalances, b \in SweepBaseBalances, p \in SweepPrices,
          total \in SweepTotals, exchange_ok \in BOOLEAN :
          call' = [fn |-> "transfer_excess_funds", spot_quote |-> q, spot_base |-> b,
                   price |-> p, total_assets |-> total,
                   out |-> transfer_excess_funds(q, b, p, total, exchange_ok)]
    /\ UNCHANGED loopVars

\* position values and total assets, in USDT, that the accounting can report
\* to the sell check; the total is 0 when the balances hold nothing and when
\* the total cannot be computed and no earlier total is cached
AccountPositionValues == {0, 5, 50}

AccountTotals == {0, 100}

\* ManagerPosition.get_position_ratio, in percent rounded down
get_position_ratio(position_value, total_assets) ==
    IF total_assets <= 0 THEN 0 ELSE (position_value * 100) \div total_assets

\* _check_sell_signal on the position ratio get_position_ratio computes from
\* the accounts
CallSellCheckOnAccounts ==
    /\ NoCallYet
    /\ \E p \in Prices, b \in Prices, auto \in BOOLEAN,
          value \in AccountPositionValues, total \in AccountTotals :
          LET ratio == get_position_ratio(value, total)
              s == check_sell_signal(p, b, INITIAL_GRID, None, FALSE, auto, ratio, TRUE)
          IN  call' = [fn |-> "sell_check_on_accounts", price |-> p, base_price |-> b,
                       AUTO_ADJUST_BASE_PRICE |-> auto, position_value |-> value,
                       total_assets |-> total, position_ratio |-> ratio,
                       base_price_after |-> s.base_price, corrected |-> s.corrected,
                       fire |-> s.fire]
    /\ UNCHANGED loopVars

\* ---------------------------------------------------------------------
\* The status endpoint of the monitoring web server and the caches of the
\* services it calls.  Times are whole seconds.

\* Validity of the cached ticker price and of the cached balances.
PRICE_CACHE_TTL == 1
cache_ttl == 30

\* The time of the status request, and the times a cache may have been
\* written at: at construction, long before the request, just before it.
StatusNow == 100
CacheTimes == {0, 60, 100}
CachedPrices == {0, 1000}
TickerAnswers == {None, Some(1010)}
BalanceAnswers == {"raises", "fresh balance"}
FundingAnswers == {"raises", "fresh funding"}

\* ManagerPosition.get_latest_price: the price cache after the call.
get_latest_price(price_cache, now, ticker) ==
    IF now - price_cache.time < PRICE_CACHE_TTL THEN price_cache
    ELSE IF ticker # None THEN [time |-> now, value |-> ticker[1]]
    ELSE price_cache

\* ExchangeClient.fetch_funding_balance: the funding cache after the call.
fetch_funding_balance(funding_cache, now, answer) ==
    IF now - funding_cache.timestamp < cache_ttl THEN funding_cache
    ELSE IF answer = "raises" THEN funding_cache
    ELSE [timestamp |-> now, data |-> answer]

\* ExchangeClient.fetch_balance: the balance cache and the funding cache
\* after the call; a stale balance cache also asks for the funding balance.
fetch_balance(balance_cache, funding_cache, now, answer, funding_answer) ==
    IF now - balance_cache.timestamp < cache_ttl
    THEN [balance |-> balance_cache, funding |-> funding_cache]
    ELSE IF answer = "raises"
    THEN [balance |-> balance_cache, funding |-> funding_cache]
    ELSE [balance |-> [timestamp |-> now, data |-> answer],
          funding |-> fetch_funding_balance(funding_cache, now, funding_answer)]

\* The attributes TraderGrid assigns in its constructor and afterwards.
TraderGridAttributes ==
    {"logger", "exchange", "cfg", "base_price", "grid_size", "ORDER_TIMEOUT",
     "initialized", "highest", "lowest", "current_price", "active_orders",
     "pending_orders", "order_timestamps", "buying_or_selling",
     "last_trade_time", "last_trade_price", "last_grid_adjust_time",
     "position_manager", "risk_manager", "order_manager"}

\* handle_status: the caches after the request and the response status.
\* The grid state of the trader and the S1 levels are only read.
handle_status(price_cache, balance_cache, funding_cache, now, ticker, answer, funding_answer) ==
    LET balances == fetch_balance(balance_cache, funding_cache, now, answer, funding_answer)
        price_after == get_latest_price(price_cache, now, ticker)
        funding_after == fetch_funding_balance(balances.funding, now, funding_answer)
    IN  [price_cache |-> price_after, balance_cache |-> balances.balance,
         funding_cache |-> funding_after,
         response |-> IF "start_time" \in TraderGridAttributes THEN 200 ELSE 500]

\* One status request against a trader in one of its constructed states.
CallHandleStatus ==
    /\ NoCallYet
    /\ \E pt \in CacheTimes, pv \in CachedPrices, bt \in CacheTimes,
          ft \in CacheTimes, ticker \in TickerAnswers,
          answer \in BalanceAnswers, funding_answer \in FundingAnswers :
          LET price_cache == [time |-> pt, value |-> pv]
              balance_cache == [timestamp |-> bt, data |-> "cached balance"]
              funding_cache == [timestamp |-> ft, data |-> "cached funding"]
              r == handle_status(price_cache, balance_cache, funding_cache,
                                 StatusNow, ticker, answer, funding_answer)
          IN  call' = [fn |-> "handle_status",
                       price_before |-> price_cache,
                       balance_before |-> balance_cache,
                       funding_before |-> funding_cache,
                       price_after |-> r.price_cache,
                       balance_after |-> r.balance_cache,
                       funding_after |-> r.funding_cache,
                       response |-> r.response]
    /\ UNCHANGED loopVars

\* ---------------------------------------------------------------------
\* Shutdown of the process

\* The orders of the pair that are open at the exchange when the process
\* shuts down, as fetch_open_orders lists them.
MaxOpenOrders == 2
OrderIds == {"o1", "o2", "o3"}
OpenOrderLists ==
    { s \in UNION { [1 .. n -> OrderIds] : n \in 0 .. MaxOpenOrders } :
        \A i, j \in DOMAIN s : i # j => s[i] # s[j] }

\* The elements of a sequence from position k on.
RECURSIVE orders_from(_, _)
orders_from(orders, k) ==
    IF k > Len(orders) THEN {} ELSE {orders[k]} \cup orders_from(orders, k + 1)

\* TraderGrid.emergency_stop: list the open orders and cancel them one after
\* the other; an exception of either call ends the cancelling; the
\* connection is closed in the finally branch.  failing_cancel is the
\* position of the cancel request that raises, 0 when none does.
emergency_stop(open_orders, fetch_ok, failing_cancel) ==
    LET n == Len(open_orders)
        cancelled_upto == IF ~fetch_ok THEN 0
                          ELSE IF failing_cancel \in 1 .. n THEN failing_cancel - 1
                          ELSE n
    IN  [cancel_requests |-> IF ~fetch_ok THEN 0
                             ELSE IF failing_cancel \in 1 .. n THEN failing_cancel
                             ELSE n,
         open_at_close |-> orders_from(open_orders, cancelled_upto + 1)
                              \ orders_from(SubSeq(open_orders, 1, cancelled_upto), 1),
         closed |-> TRUE]

\* The finally branch of main: the connection of the trader is closed;
\* no order is listed or cancelled.
main_finally(open_orders) ==
    [cancel_requests |-> 0,
     open_at_close |-> orders_from(open_orders, 1),
     closed |-> TRUE]

\* The process shuts down: main leaves its try block, after gather returned
\* or raised.
CallMainShutdown ==
    /\ NoCallYet
    /\ \E open_orders \in OpenOrderLists :
          LET r == main_finally(open_orders)
          IN  call' = [fn |-> "shutdown", path |-> "main",
                       open_orders |-> orders_from(open_orders, 1),
                       cancel_requests |-> r.cancel_requests,
                       open_at_close |-> r.open_at_close, closed |-> r.closed]
    /\ UNCHANGED loopVars

\* emergency_stop called on its own.
CallEmergencyStop ==
    /\ NoCallYet
    /\ \E open_orders \in OpenOrderLists, fetch_ok \in BOOLEAN,
          failing_cancel \in 0 .. MaxOpenOrders :
          LET r == emergency_stop(open_orders, fetch_ok, failing_cancel)
          IN  call' = [fn |-> "shutdown", path |-> "emergency_stop",
                       open_orders |-> orders_from(open_orders, 1),
                       cancel_requests |-> r.cancel_requests,
                       open_at_close |-> r.open_at_close, closed |-> r.closed]
    /\ UNCHANGED loopVars

\* ---------------------------------------------------------------------
\* One iteration of main_loop as the sequence of the calls it makes

\* The calls of one iteration, in the order of the code, for a trader that
\* is initialized.  sell_signal and buy_signal are what
\* _check_signal_with_retry returns for the two checks (False after its
\* retries are used up), risk is what multi_layer_check returns, due says
\* that the dynamic interval has passed, monitoring is buying_or_selling
\* after the checks.
tick_calls(has_price, sell_signal, buy_signal, risk, due, monitoring) ==
    <<"update_daily_s1_levels", "get_latest_price">> \o
    (IF ~has_price THEN << >>
     ELSE <<"_check_sell_signal">> \o
          (IF sell_signal THEN <<"execute_order sell">>
           ELSE <<"_check_buy_signal">> \o
                (IF buy_signal THEN <<"execute_order buy">>
                 ELSE <<"multi_layer_check">> \o
                      (IF risk THEN << >>
                       ELSE <<"check_and_execute",
                              "_calculate_dynamic_interval_seconds">> \o
                            (IF due /\ ~monitoring
                             THEN <<"adjust_grid_size">> ELSE << >>)))))

\* An iteration that runs the S1 controller and the grid adjustment
\* whatever the risk check returns.
main_loop_iteration_ignores_risk(has_price, sell_signal, buy_signal, risk, due, monitoring, raising) ==
    tick_calls(has_price, sell_signal, buy_signal, FALSE, due, monitoring)

\* main_loop, one iteration: the calls made.  raising is the position of
\* the call that raises, 0 when none does; the except branch of the loop
\* ends the iteration there.  The two signal checks do not raise:
\* _check_signal_with_retry catches their exceptions.
main_loop_iteration(has_price, sell_signal, buy_signal, risk, due, monitoring, raising) ==
    LET calls == tick_calls(has_price, sell_signal, buy_signal, risk, due, monitoring)
    IN  IF /\ raising \in 1 .. Len(calls)
           /\ calls[raising] \notin {"_check_sell_signal", "_check_buy_signal"}
        THEN SubSeq(calls, 1, raising)
        ELSE calls

\* The longest iteration makes eight calls.
MaxCalls == 8

CallMainLoopIteration ==
    /\ NoCallYet
    /\ \E has_price, sell_signal, buy_signal, risk, due, monitoring \in BOOLEAN,
          raising \in 0 .. MaxCalls :
          call' = [fn |-> "main_loop_iteration", has_price |-> has_price,
                   sell_signal |-> sell_signal, buy_signal |-> buy_signal,
                   risk |-> risk, due |-> due, monitoring |-> monitoring,
                   raising |-> raising,
                   calls |-> main_loop_iteration(has_price, sell_signal, buy_signal,
                                                 risk, due, monitoring, raising)]
    /\ UNCHANGED loopVars

\* ---------------------------------------------------------------------
\* The price step of main_loop on what the ticker delivers

\* What the ticker request leaves in ticker['last'], in tenths: nothing
\* (the request raises or the ticker has no last price), zero, a negative
\* number, a price.
TickerLasts == {None, Some(0), Some(0 - 10), Some(950), Some(1030)}

\* The price cache before the tick: as constructed, and a price cached
\* long ago.
PriceCaches == {[time |-> 0, value |-> None], [time |-> 60, value |-> Some(1000)]}

\* ManagerPosition.get_latest_price: what the call returns, an optional
\* price; the cache holds an optional price.
latest_price(price_cache, now, ticker) ==
    IF now - price_cache.time < PRICE_CACHE_TTL THEN price_cache.value
    ELSE IF ticker # None THEN ticker
    ELSE IF Truthy(price_cache.value) THEN price_cache.value ELSE Some(0)

\* main_loop from the price test to the order: "if not current_price"
\* skips the tick; otherwise the sell check runs, and the buy check when
\* the sell check answers false.  The trader is idle before the tick:
\* nothing tracked, not monitoring.
price_step(price, b, g, auto, ratio, funds) ==
    IF ~Truthy(price)
    THEN [evaluated |-> FALSE, order |-> "none", base_price |-> b,
          highest |-> None, lowest |-> None, buying_or_selling |-> FALSE]
    ELSE LET s == check_sell_signal(price[1], b, g, None, FALSE, auto, ratio, funds)
             c == check_buy_signal(price[1], s.base_price, g, None,
                                   s.buying_or_selling, funds)
         IN  IF s.fire
             THEN [evaluated |-> TRUE, order |-> "sell", base_price |-> s.base_price,
                   highest |-> s.highest, lowest |-> None,
                   buying_or_selling |-> s.buying_or_selling]
             ELSE [evaluated |-> TRUE, order |-> IF c.fire THEN "buy" ELSE "none",
                   base_price |-> s.base_price, highest |-> s.highest,
                   lowest |-> c.lowest, buying_or_selling |-> c.buying_or_selling]

\* One tick of an idle trader with base price 100.0 on what the ticker
\* delivers.
CallPriceStep ==
    /\ NoCallYet
    /\ \E ticker \in TickerLasts, price_cache \in PriceCaches, auto \in BOOLEAN,
          ratio \in Ratios, funds \in BOOLEAN :
          LET price == latest_price(price_cache, StatusNow, ticker)
              r == price_step(price, 1000, INITIAL_GRID, auto, ratio, funds)
          IN  call' = [fn |-> "price_step", ticker |-> ticker,
                       price_cache |-> price_cache, price |-> price,
                       base_price |-> 1000, evaluated |-> r.evaluated,
                       order |-> r.order, base_price_after |-> r.base_price,
                       highest_after |-> r.highest, lowest_after |-> r.lowest,
                       buying_or_selling_after |-> r.buying_or_selling]
    /\ UNCHANGED loopVars

\* ---------------------------------------------------------------------
\* The daily refresh of the S1 levels over the ticks of the control loop

\* ActionerS1.daily_update_interval: 23.9 hours, in seconds
daily_update_interval == 86040

\* The clock stops this many seconds after the controller was constructed.
MaxS1Clock == 3 * 86040

\* Seconds between two calls of update_daily_s1_levels: the two calls of an
\* iteration that initializes, half a day, one tick of five seconds less
\* than the interval, the interval.
S1TickSteps == {0, 43020, 86035, 86040}

\* What fetch_ohlcv delivers on a refresh: S1_LOOKBACK + 2 candles.
S1TickCandles == { [i \in 1 .. S1_LOOKBACK + 2 |-> c] : c \in Candles }

\* an update that asks for the candles once an hour
update_daily_s1_levels_hourly(fetch_ok, klines, levels, last_ts, now) ==
    IF now - last_ts >= 3600
    THEN [fetched |-> TRUE] @@ fetch_and_calculate_s1_levels(fetch_ok, klines, levels, last_ts, now)
    ELSE [fetched |-> FALSE, levels |-> levels, last_ts |-> last_ts, ok |-> FALSE]

\* update_daily_s1_levels: the refresh runs when the interval has passed
\* since s1_last_data_update_ts
update_daily_s1_levels(fetch_ok, klines, levels, last_ts, now) ==
    IF now - last_ts >= daily_update_interval
    THEN [fetched |-> TRUE] @@ fetch_and_calculate_s1_levels(fetch_ok, klines, levels, last_ts, now)
    ELSE [fetched |-> FALSE, levels |-> levels, last_ts |-> last_ts, ok |-> FALSE]

\* The controller as constructed: no levels, s1_last_data_update_ts = 0.
CallS1Construct ==
    /\ NoCallYet
    /\ call' = [fn |-> "update_daily_s1_levels", now |-> S1Now, levels |-> None,
                last_ts |-> 0, fetches |-> 0, fetched |-> FALSE]
    /\ UNCHANGED loopVars

\* One call of update_daily_s1_levels from main_loop, some seconds after
\* the previous one.
S1UpdateTick ==
    /\ call.fn = "update_daily_s1_levels"
    /\ \E step \in S1TickSteps, fetch_ok \in BOOLEAN, klines \in S1TickCandles :
          /\ call.now + step <= S1Now + MaxS1Clock
          /\ LET r == update_daily_s1_levels(fetch_ok, klines, call.levels,
                                             call.last_ts, call.now + step)
             IN  call' = [fn |-> "update_daily_s1_levels", now |-> call.now + step,
                          levels |-> r.levels, last_ts |-> r.last_ts,
                          fetches |-> IF r.fetched THEN Min(call.fetches + 1, 3)
                                      ELSE call.fetches,
                          fetched |-> r.fetched]
    /\ UNCHANGED loopVars

\* ---------------------------------------------------------------------
\* _execute_s1_adjustment against the limits of the venue

\* The default minimum amount, 0.0001 BNB, in ten-thousandths of a BNB.
S1_MIN_AMOUNT == 1

\* Amounts check_and_execute asks for, in ten-thousandths of a BNB.
S1RawAmounts == {0, 9, 10, 99, 100, 1009}

\* symbol_info["limits"]: absent (the defaults apply), or the minimum
\* notional in USDT and the minimum amount in ten-thousandths of a BNB;
\* a limit the venue does not state is None.
VenueLimits ==
    { None,
      Some([cost_min |-> Some(5), amount_min |-> Some(100)]),
      Some([cost_min |-> Some(20), amount_min |-> Some(1)]),
      Some([cost_min |-> None, amount_min |-> Some(1)]) }

\* Prices get_latest_price answers, in tenths of a USDT.
S1OrderPrices == {0, 1000, 6000}

\* adjust_amount_precision with the default precision 3: the amount
\* rounded down to whole thousandths, given and returned in
\* ten-thousandths of a BNB
floor_to_precision(raw_amount) == (raw_amount \div 10) * 10

\* an adjustment that asks for the funds before it tests the limits
execute_s1_adjustment_funds_first(s1_side, raw_amount, price, limits, funded) ==
    [orders |-> << >>, funds_requests |-> 1, sweeps |-> 0]

\* _execute_s1_adjustment: the market orders handed to create_market_order
\* (amount in ten-thousandths of a BNB), the calls of ensure_trading_funds
\* and the calls of transfer_excess_funds.  Comparing with a limit that is
\* None raises, and the except branch returns False.
execute_s1_adjustment_limits(s1_side, raw_amount, price, limits, funded) ==
    LET adjusted_amount == floor_to_precision(raw_amount)
        min_notional == IF limits = None THEN Some(S1_MIN_NOTIONAL) ELSE limits[1].cost_min
        min_amount_limit == IF limits = None THEN Some(S1_MIN_AMOUNT) ELSE limits[1].amount_min
        skipped == [orders |-> << >>, funds_requests |-> 0, sweeps |-> 0]
    IN  IF adjusted_amount <= 0 THEN skipped
        ELSE IF price <= 0 THEN skipped
        ELSE IF min_amount_limit = None THEN skipped
        ELSE IF adjusted_amount < min_amount_limit[1] THEN skipped
        ELSE IF min_notional = None THEN skipped
        ELSE IF adjusted_amount * price < min_notional[1] * 100000 THEN skipped
        ELSE IF ~funded THEN [orders |-> << >>, funds_requests |-> 1, sweeps |-> 0]
        ELSE [orders |-> << [side |-> IF s1_side = "SELL" THEN "sell" ELSE "buy",
                             amount |-> adjusted_amount] >>,
              funds_requests |-> 1,
              sweeps |-> IF s1_side = "BUY" THEN 1 ELSE 0]

\* One adjustment.
CallS1Adjustment ==
    /\ NoCallYet
    /\ \E s1_side \in {"SELL", "BUY"}, raw_amount \in S1RawAmounts,
          price \in S1OrderPrices, limits \in VenueLimits, funded \in BOOLEAN :
          LET r == execute_s1_adjustment_limits(s1_side, raw_amount, price, limits, funded)
          IN  call' = [fn |-> "execute_s1_adjustment", s1_side |-> s1_side,
                       raw_amount |-> raw_amount, price |-> price,
                       limits |-> limits, funds_ok |-> funded,
                       orders |-> r.orders, funds_requests |-> r.funds_requests,
                       sweeps |-> r.sweeps]
    /\ UNCHANGED loopVars

\* ---------------------------------------------------------------------
\* The tail of a tick without a grid trade: the risk gate, then S1

\* Position ratios of the account, in percent, on both sides of the S1
\* targets and of the limits of the risk gate.
S1TickRatios == {5, 40, 60, 80, 95}

\* main_loop after both signal checks answered false: multi_layer_check,
\* and check_and_execute unless the gate halted the tick.  The account
\* holds 100 USDT in total, position_pct of it in BNB, and one BNB is
\* free; the order meets the minimums and the funds are there.
risk_then_s1(levels, price, position_pct) ==
    IF multi_layer_check(position_pct)
    THEN [halted |-> TRUE, orders |-> << >>]
    ELSE [halted |-> FALSE,
          orders |-> s1_check_and_execute(levels, price, position_pct, position_pct,
                                          100, 1, TRUE).orders]

CallRiskThenS1 ==
    /\ NoCallYet
    /\ \E levels \in S1Levels, p \in S1Prices, pct \in S1TickRatios :
          LET r == risk_then_s1(levels, p, pct)
          IN  call' = [fn |-> "risk_then_s1", levels |-> levels, price |-> p,
                       position_pct |-> pct, halted |-> r.halted,
                       orders |-> r.orders]
    /\ UNCHANGED loopVars

\* ---------------------------------------------------------------------
\* The position ratio over the caches of ManagerPosition

\* get_total_assets keeps its result for this many seconds.
ASSETS_CACHE_TTL == 60

\* Balances in whole BNB and whole USDT, prices in tenths of a USDT.
RatioBaseBalances == {0, 1}
RatioQuoteBalances == {0, 100}
RatioPrices == {900, 1000, 1100}

\* The times the total was cached at, for a ratio asked at StatusNow:
\* never, within the last minute, longer ago.
AssetCacheTimes == {0, 30, 60}

\* the value of the account in tenths of a USDT: quote plus base at price,
\* spot and savings together
account_value(base_amount, quote_amount, price) == quote_amount * 10 + base_amount * price

\* get_total_assets: the cached value while it is fresh, the value of the
\* account otherwise
get_total_assets(assets_cache, now, base_amount, quote_amount, price) ==
    IF now - assets_cache.time < ASSETS_CACHE_TTL THEN assets_cache.value
    ELSE account_value(base_amount, quote_amount, price)

\* get_position_ratio on an account whose total was last computed at
\* cached_at, when the price was earlier_price; the balances have not
\* changed since, the price is now price.
CallPositionRatio ==
    /\ NoCallYet
    /\ \E base_amount \in RatioBaseBalances, quote_amount \in RatioQuoteBalances,
          earlier_price \in RatioPrices, price \in RatioPrices,
          cached_at \in AssetCacheTimes :
          LET assets_cache ==
                  [time |-> cached_at,
                   value |-> IF cached_at = 0 THEN 0
                             ELSE account_value(base_amount, quote_amount, earlier_price)]
              position_value == base_amount * price
              total_assets == get_total_assets(assets_cache, StatusNow, base_amount,
                                               quote_amount, price)
          IN  call' = [fn |-> "get_position_ratio", base_amount |-> base_amount,
                       quote_amount |-> quote_amount, earlier_price |-> earlier_price,
                       price |-> price, assets_cache |-> assets_cache,
                       position_value |-> position_value,
                       total_assets |-> total_assets,
                       ratio |-> get_position_ratio(position_value, total_assets)]
    /\ UNCHANGED loopVars

\* ---------------------------------------------------------------------
\* adjust_grid_size when the hourly candles are not to be had

\* What fetch_ohlcv does for _calculate_volatility: it raises, it returns
\* no candles, it returns candles.
HourlyFetches == {"raises", "empty", "candles"}

\* _calculate_volatility: 0 when the fetch raises or returns nothing, the
\* annualised volatility of the closing prices otherwise (in hundredths)
calculate_volatility(fetch, volatility) ==
    IF fetch \in {"raises", "empty"} THEN 0 ELSE volatility

\* One call of adjust_grid_size on a trader with the grid size grid_before.
CallAdjustOnFetch ==
    /\ NoCallYet
    /\ \E fetch \in HourlyFetches, v \in Volatilities, grid_before \in InitialGrids :
          LET volatility == calculate_volatility(fetch, v)
          IN  call' = [fn |-> "adjust_grid_size", fetch |-> fetch,
                       volatility |-> volatility, grid_before |-> grid_before,
                       grid_after |-> adjust_grid_size(volatility, INITIAL_GRID)]
    /\ UNCHANGED loopVars

CallNext ==
    \/ CallAdjustOnFetch
    \/ CallPositionRatio
    \/ CallRiskThenS1
    \/ CallS1Adjustment
    \/ S1UpdateTick
    \/ CallS1Construct
    \/ CallPriceStep
    \/ CallMainLoopIteration
    \/ CallEmergencyStop
    \/ CallMainShutdown
    \/ CallHandleStatus
    \/ CallSellCheckOnAccounts
    \/ CallTransferExcessFunds
    \/ CallS1Sizing
    \/ CallS1FetchLevels
    \/ CallS1CheckAndExecute
    \/ CallBands
    \/ CallTickChecks
    \/ CallSignalChecks
    \/ CallEnsureTradingFunds
    \/ CallMultiLayerCheck
    \/ CallBucketLookup
    \/ CallConstructTrader
    \/ CallAdjustGridSize

CallSpec == Init /\ [][CallNext]_vars

----------------------------------------------------------------------------
(* Properties of the signal checks *)

\* a step that is one whole tick of the control loop on a fetched price: from
\* the price to the decision to trade or to go on to the risk gate
TickStep == pc = "loop" /\ initialized /\ pc' \in {"exec", "risk"}

\* the tracked extremum after a tick on price p
TrackedLow(L, p) == IF L = None THEN p ELSE Min(L[1], p)

TrackedHigh(H, p) == IF H = None THEN p ELSE Max(H[1], p)

\* p <= b * (1 - g/100) and p >= b * (1 + g/100), g in tenths of a percent
AtLowerBand(p, b, g) == p * 1000 <= b * (1000 - g)

AtUpperBand(p, b, g) == p * 1000 >= b * (1000 + g)

InsideBand(p, b, g) == ~AtLowerBand(p, b, g) /\ ~AtUpperBand(p, b, g)

\* C1: on every tick with price p, base price b, grid size g and tracked low L
\* the loop decides BUY if and only if p <= b*(1 - g/100), p >= L'*(1 + g/500)
\* with L' = p when L is none and min(L, p) otherwise, and the funds check
\* passes; whenever p <= b*(1 - g/100) the tick leaves lowest = L'.
C1_BuyFireRule ==
    [][TickStep =>
        LET p == current_price'[1]
            Lnew == TrackedLow(lowest, p)
            atBand == AtLowerBand(p, base_price, grid_size)
            rebound == p * 5000 >= Lnew * (5000 + grid_size)
        IN  /\ signal' = "buy" <=> (atBand /\ rebound /\ funds_ok')
            /\ atBand => lowest' = Some(Lnew)
            /\ signal' = "buy" <=> (pc' = "exec" /\ side' = "buy")]_vars

\* a BUY has been decided on a price that rebounded off a lower tracked low
C1_Witness ==
    /\ pc = "exec" /\ side = "buy" /\ gw = "none"
    /\ signal = "buy" /\ funds_ok
    /\ lowest # None /\ lowest[1] < current_price[1]

\* C2: on every tick with price p the loop decides SELL if and only if
\* p >= b*(1 + g/100), p <= H'*(1 - g/500) with H' = p when the tracked high H
\* is none and max(H, p) otherwise, the funds check passes and the
\* auto-correction branch was not taken; a price below the upper band never
\* decides SELL.
C2_SellFireRule ==
    [][TickStep =>
        LET p == current_price'[1]
            Hnew == TrackedHigh(highest, p)
            atBand == AtUpperBand(p, base_price, grid_size)
            fallback == p * 5000 <= Hnew * (5000 - grid_size)
        IN  /\ signal' = "sell" <=> (atBand /\ fallback /\ funds_ok' /\ ~corrected')
            /\ ~atBand => signal' # "sell"
            /\ signal' = "sell" <=> (pc' = "exec" /\ side' = "sell")]_vars

\* a SELL has been decided on a price that fell back from a higher tracked high
C2_Witness ==
    /\ pc = "exec" /\ side = "sell" /\ gw = "none"
    /\ signal = "sell" /\ funds_ok /\ ~corrected
    /\ highest # None /\ highest[1] > current_price[1]

\* C3 as the specification states it: with base price 100, grid size 2 %,
\* lowest none and funds sufficient, the prices 97, 95, 96, 95.5, 96.2 leave
\* lowest = 95 after the second tick and the first BUY is decided on the fifth
\* tick, at 96.2, and on no earlier tick.
C3_FirstBuyAt962 ==
    episode.on =>
        /\ episode.ticks = 2 => lowest = Some(950)
        /\ episode.ticks \in 1..4 => episode.buy = 0
        /\ episode.ticks = 5 => episode.buy = 5

\* C3 as the code behaves: with the same start and the same prices, lowest is
\* 95 after the second tick, no BUY is decided on the first two ticks, and the
\* first BUY is decided on the third tick, at 96 (96 >= 95 * 1.004 = 95.38).
C3_FirstBuyAt96 ==
    episode.on =>
        /\ episode.ticks = 1 => lowest = Some(970)
        /\ episode.ticks = 2 => lowest = Some(950)
        /\ episode.ticks \in 1..2 => episode.buy = 0
        /\ episode.ticks >= 3 => episode.buy = 3

\* the third tick of the example has just decided the first BUY at 96
C3_Witness ==
    /\ episode.on /\ episode.ticks = 3 /\ episode.buy = 3
    /\ current_price = Some(960) /\ lowest = Some(950)
    /\ pc = "exec" /\ side = "buy"

\* C4: on a tick that takes the price from inside the band to or below the
\* lower band, lowest becomes this tick's price and no BUY is decided; on a
\* tick that takes it from inside the band to or above the upper band (and is
\* not auto-corrected), highest becomes this tick's price and no SELL is
\* decided.
C4_EpisodeStart ==
    [][(TickStep /\ current_price # None
          /\ InsideBand(current_price[1], base_price, grid_size)) =>
        LET p == current_price'[1]
        IN  /\ AtLowerBand(p, base_price, grid_size) =>
                   lowest' = Some(p) /\ signal' # "buy"
            /\ (AtUpperBand(p, base_price, grid_size) /\ ~corrected') =>
                   highest' = Some(p) /\ signal' # "sell"]_vars

\* C5: a tick that ends with the price strictly inside the band leaves both
\* tracked extrema none; a tick that decides BUY leaves lowest none; a tick
\* that decides SELL leaves highest none.
C5_ExtremumReset ==
    [][TickStep =>
        /\ InsideBand(current_price'[1], base_price', grid_size') =>
               lowest' = None /\ highest' = None
        /\ signal' = "buy" => lowest' = None
        /\ signal' = "sell" => highest' = None]_vars

\* C6: grid_size changes only in the adaptive step of the control loop and
\* only while no breach is being monitored; the adaptive step of a tick whose
\* price is at or below the lower band or at or above the upper band leaves
\* grid_size unchanged.
C6_NoResizeInEpisode ==
    [][/\ grid_size' # grid_size => pc = "risk" /\ ~buying_or_selling
       /\ (pc = "risk" /\ ~InsideBand(current_price[1], base_price, grid_size)) =>
              grid_size' = grid_size]_vars

----------------------------------------------------------------------------
(* Properties of execute_order *)

\* C7: a call of execute_order that has returned after attempts which all met
\* a usable order book, sufficient funds, an unfilled order and an accepted
\* cancellation has placed exactly max_retries orders, cancelled every one of
\* them, returned failure, left the marker of the side none and left
\* base_price as it was.
C7_RetryBudget ==
    (pc = "done" /\ faults = 0 /\ gw \notin {"closed", "recheck_closed"}) =>
        /\ placed = max_retries
        /\ cancelled = max_retries
        /\ retry_count = max_retries
        /\ result = "failure"
        /\ active_orders[side] = None
        /\ base_price = base_before
        /\ new_trades = << >>

\* a call has returned after max_retries unfilled, cancelled orders
C7_Witness ==
    /\ pc = "done" /\ faults = 0 /\ gw = "cancelled"
    /\ placed = max_retries /\ result = "failure"

\* C8: when the order fetched after the settle delay is closed, the call sets
\* base_price to the order's price, clears the marker of the side, appends
\* exactly one trade record, of that order, sweeps excess funds and returns the
\* order; it places no further order.
C8_FillCommit ==
    [][/\ (pc = "wait" /\ gw' = "closed") =>
              /\ base_price' = order_price
              /\ active_orders'[side] = None
              /\ new_trades' = Append(new_trades,
                                       [side |-> side, price |-> order_price,
                                        order_id |-> active_orders[side][1]])
              /\ sweeps' >= sweeps + 1
              /\ result' = "order"
              /\ pc' = "done"
              /\ placed' = placed
       /\ (pc = "done" /\ gw = "closed") =>
              pc' = "loop" /\ active_orders' = active_orders
                           /\ base_price' = base_price]_vars

\* a call has returned an order that was closed at the first check, and the
\* base price has moved to its price
C8_Witness ==
    /\ pc = "done" /\ gw = "closed" /\ result = "order"
    /\ sweeps = 1 /\ Len(new_trades) = 1
    /\ base_price # base_before /\ base_price = new_trades[1].price

\* C9: when the cancellation of an unfilled order raises, the order is fetched
\* exactly once more; if it is closed the fill is committed (base_price is its
\* price, one trade record, the order returned, no further order placed);
\* otherwise the marker of the side is cleared and retry_count grows by
\* exactly one.
C9_CancelFillRace ==
    [][/\ (pc = "wait" /\ gw' = "cancel_error") =>
              pc' = "recheck" /\ active_orders' = active_orders
                              /\ retry_count' = retry_count
       /\ pc = "recheck" =>
              /\ gw' \in {"recheck_closed", "recheck_open"}
              /\ pc' \in {"done", "exec"}
              /\ placed' = placed
       /\ (pc = "recheck" /\ gw' = "recheck_closed") =>
              /\ base_price' = order_price
              /\ Len(new_trades') = Len(new_trades) + 1
              /\ new_trades'[Len(new_trades')].order_id = active_orders[side][1]
              /\ active_orders'[side] = None
              /\ result' = "order"
              /\ pc' = "done"
       /\ (pc = "recheck" /\ gw' = "recheck_open") =>
              /\ active_orders'[side] = None
              /\ retry_count' = retry_count + 1
              /\ base_price' = base_price
              /\ new_trades' = new_trades
              /\ pc' = "exec"
       /\ (pc = "done" /\ gw = "recheck_closed") => pc' = "loop"]_vars

\* a call has returned an order found closed by the check after a failed
\* cancellation
C9_Witness ==
    /\ pc = "done" /\ gw = "recheck_closed" /\ result = "order"
    /\ Len(new_trades) = 1 /\ base_price = new_trades[1].price
    /\ active_orders[side] = None

\* the wordings of ErrorTexts that report an insufficient balance
ReportsInsufficientBalance(text) == text # "Request timed out"

\* C10: when ensure_trading_funds answers false on an attempt, or create_order
\* raises an error that reports an insufficient balance, the call returns
\* failure in that step, whatever retries are left; it has placed no order in
\* that attempt, places none afterwards, and leaves base_price unchanged.
C10_InsufficientHardStop ==
    [][(/\ pc = "exec" /\ retry_count < max_retries
        /\ \/ gw' = "funds_short"
           \/ gw' = "create_error" /\ ReportsInsufficientBalance(error_text')) =>
          /\ pc' = "done"
          /\ result' = "failure"
          /\ placed' = placed
          /\ active_orders' = active_orders
          /\ base_price' = base_price]_vars

----------------------------------------------------------------------------
(* Properties of the position and risk accounting *)

\* the call recorded is a funds check for a side with a price to size it
FundsCall ==
    /\ call.fn = "ensure_trading_funds"
    /\ Upper(call.side) \in {"BUY", "SELL"}
    /\ Upper(call.side) = "SELL" => call.price > 0

\* the requirement of the recorded funds check in the side's currency, times
\* call.price for a SELL: the quote value for a BUY, quote value / price for a SELL
RequiredTimesScale == call.amount_value

FundsScale == IF Upper(call.side) = "BUY" THEN 1 ELSE call.price

\* C11: when the spot balance of the side's currency covers the requirement
\* ensure_trading_funds returns true and asks for no transfer; when spot plus
\* savings cannot cover it, it returns false and asks for no transfer.
C11_FundsBoundaryCases ==
    FundsCall =>
        /\ call.spot * FundsScale >= RequiredTimesScale =>
               call.out.result /\ call.out.transfers = << >> /\ call.out.redeems = << >>
        /\ (call.spot + call.savings) * FundsScale < RequiredTimesScale =>
               ~call.out.result /\ call.out.transfers = << >>
                                /\ call.out.redeems = << >>

\* a SELL funds check met spot plus savings short of the base amount required
C11_Witness ==
    /\ FundsCall /\ call.side = "SELL"
    /\ call.savings > 0
    /\ (call.spot + call.savings) * call.price < call.amount_value
    /\ ~call.out.result /\ call.out.transfers = << >>

\* C12: when spot < required <= spot + savings, ensure_trading_funds has
\* exactly one redemption of (required - spot) * 1.05 of the side's currency
\* posted to the exchange, and it returns true exactly when the exchange
\* performs it.
C12_ShortfallTransfer ==
    (/\ FundsCall
     /\ call.spot * FundsScale < RequiredTimesScale
     /\ (call.spot + call.savings) * FundsScale >= RequiredTimesScale) =>
        /\ Len(call.out.redeems) = 1
        /\ call.out.redeems[1].asset =
               (IF Upper(call.side) = "BUY" THEN quote_currency ELSE base_currency)
        /\ call.out.redeems[1].amount.num * 100 * FundsScale =
               (RequiredTimesScale - call.spot * FundsScale) * 105
                  * call.out.redeems[1].amount.den
        /\ call.out.result <=> call.redeem_ok

\* the position ratio of the recorded risk check is below the minimum or above
\* the maximum: ratio = base * price / (base * price + usdt), 0 when the
\* total is 0
RatioBreach ==
    LET position_value == call.base * call.price
        total_assets == position_value + call.usdt
    IN  \/ total_assets = 0
        \/ position_value * 100 < RISK_MIN_POSITION_RATIO * total_assets
        \/ position_value * 100 > RISK_MAX_POSITION_RATIO * total_assets

\* C13: the risk check of the running program returns true exactly when the
\* position ratio is below MIN_POSITION_RATIO or above MAX_POSITION_RATIO and
\* false otherwise, whatever ratio was logged last.
C13_RiskGate ==
    call.fn = "multi_layer_check" =>
        /\ RatioBreach => call.out = "True"
        /\ ~RatioBreach => call.out \in {"False", "None"}


\* C14: bucket selection is total and deterministic: every volatility v >= 0
\* lies in exactly one range of the grid table and exactly one range of the
\* interval table, so neither lookup falls back to its default; 0.35 selects
\* grid 1.5 % and 0.5 h, 0.05 selects grid 1.0 % and 1 h
C14_BucketTotality ==
    call.fn = "bucket_lookup" =>
        /\ call.grid_matches = 1
        /\ call.interval_matches = 1
        /\ call.volatility = 35 => call.grid = 15 /\ call.seconds = 1800
        /\ call.volatility = 5 => call.grid = 10 /\ call.seconds = 3600

\* C15: grid_size lies in [1.0, 4.0] from construction with any configured
\* initial grid size and after every sequence of adjustments, with any
\* volatility, also one that no range holds
C15_GridSizeRange ==
    call.fn = "TraderGrid" =>
        GRID_MIN <= call.grid_size /\ call.grid_size <= GRID_MAX

C17_FlipThreshold ==
    call.fn = "signal_checks" =>
        LET g == call.grid_size
            th == call.threshold
        IN  /\ th.num * 500 * 10 = g * th.den
            /\ g = 20 => th.num * 1000 = 4 * th.den
            /\ call.buy <=> call.buy_price * 5000 >= TrackedExtremum * (5000 + g)
            /\ call.sell <=> call.sell_price * 5000 <= TrackedExtremum * (5000 - g)

\* at grid size 2 % a price 0.4 % above the low fires the buy check and a price
\* 0.4 % below the high fires the sell check
C17_Witness ==
    /\ call.fn = "signal_checks" /\ call.grid_size = 20
    /\ call.buy_price = 1004 /\ call.sell_price = 996
    /\ call.buy /\ call.sell

\* a step in which execute_order finds its order closed and commits the fill
FillStep == pc \in {"wait", "recheck"} /\ pc' = "done" /\ result' = "order"

\* C18: once the trader is initialized base_price changes only to the price of
\* the order when execute_order observes its order filled, or to the current
\* price in the auto-correction branch with auto-correction enabled; a call
\* that returns failure, a failed funds check, the risk gate, the S1
\* controller and the adaptive controller leave it unchanged
C18_BasePriceFrame ==
    [][initialized =>
         /\ base_price' # base_price =>
                \/ FillStep /\ gw' \in {"closed", "recheck_closed"}
                            /\ base_price' = order_price
                \/ TickStep /\ AUTO_ADJUST_BASE_PRICE /\ corrected'
                            /\ base_price' = current_price'[1]
         /\ (pc \in {"exec", "wait", "recheck"} /\ ~FillStep) =>
                base_price' = base_price
         /\ (pc' = "done" /\ result' = "failure") => base_price' = base_before
         /\ pc = "risk" => base_price' = base_price]_vars

\* a tick at 103.0 took the auto-correction branch and moved the base price
\* there, to a price that neither the configuration nor an order book gives
C18_Witness ==
    /\ initialized /\ AUTO_ADJUST_BASE_PRICE
    /\ pc = "risk" /\ corrected
    /\ current_price = Some(1030) /\ base_price = 1030
    /\ base_price \notin (InitialBasePrices \cup StartPrices \cup BookPrices)

\* the recorded tick met the auto-correction condition: auto-correction
\* enabled, price at or above the upper band, position ratio below
\* MIN_POSITION_RATIO
AutoCorrectionCase ==
    /\ call.fn = "tick_checks"
    /\ call.AUTO_ADJUST_BASE_PRICE
    /\ AtUpperBand(call.price, call.base_price, call.grid_size)
    /\ call.position_ratio < MIN_POSITION_RATIO

\* C19: on a tick with auto-correction enabled, price >= upper band and
\* position ratio < MIN_POSITION_RATIO, base_price becomes the current price,
\* highest is cleared and the tick places neither a sell nor a buy order
C19_AutoCorrectionNeverTrades ==
    AutoCorrectionCase =>
        /\ call.base_price_after = call.price
        /\ call.highest_after = None
        /\ call.order = "none"

\* a tick took the auto-correction branch although a high was tracked, funds
\* were sufficient and the price had moved the base price
C19_Witness ==
    /\ AutoCorrectionCase
    /\ call.highest # None /\ call.funds
    /\ call.base_price_after # call.base_price
    /\ call.order = "none"

\* the sell condition and the buy condition of the recorded S1 call, from its
\* inputs
S1SellCondition ==
    /\ call.levels # None
    /\ call.price > call.levels[1].high
    /\ call.position_pct > S1_SELL_TARGET_PCT

S1BuyCondition ==
    /\ call.levels # None
    /\ call.price < call.levels[1].low
    /\ call.position_pct < S1_BUY_TARGET_PCT

\* C20: for every price, levels and position one S1 check places at most one
\* order and never both a buy and a sell; the sell condition is tested first
\* and the buy condition is considered only when the sell condition is false
C20_S1MutualExclusivity ==
    call.fn = "s1_check_and_execute" =>
        /\ Len(call.out.orders) <= 1
        /\ call.out.orders \in {<< >>, << "sell" >>, << "buy" >>}
        /\ call.out.orders = << "sell" >> => S1SellCondition
        /\ call.out.orders = << "buy" >> => ~S1SellCondition /\ S1BuyCondition
        /\ call.out.buy_considered => ~S1SellCondition
        /\ S1SellCondition => call.out.orders # << "buy" >>

\* both conditions held on one tick and the check placed the sell order alone
C20_Witness ==
    /\ call.fn = "s1_check_and_execute"
    /\ S1SellCondition /\ S1BuyCondition
    /\ call.out.orders = << "sell" >>

----------------------------------------------------------------------------
(* Properties of the S1 controller and of the sweep to savings *)

\* the recorded call is a refresh of the S1 levels
S1Refresh == call.fn = "fetch_and_calculate_s1_levels"

\* the candles a refresh may use: the S1_LOOKBACK candles before the last one
ClosedCandles == (Len(call.klines) - S1_LOOKBACK) .. (Len(call.klines) - 1)

\* C22: when the gateway returns at least lookback + 1 daily candles the
\* refresh leaves daily_high the maximum high and daily_low the minimum low of
\* exactly the lookback candles before the last returned one; when it returns
\* fewer, or the fetch fails, levels and timestamp stay as they were
C22_S1LevelRefresh ==
    S1Refresh =>
        /\ (call.fetch_ok /\ Len(call.klines) >= S1_LOOKBACK + 1) =>
              /\ call.out.levels # None
              /\ \E i \in ClosedCandles : call.klines[i].high = call.out.levels[1].high
              /\ \A i \in ClosedCandles : call.klines[i].high <= call.out.levels[1].high
              /\ \E i \in ClosedCandles : call.klines[i].low = call.out.levels[1].low
              /\ \A i \in ClosedCandles : call.klines[i].low >= call.out.levels[1].low
        /\ (~call.fetch_ok \/ Len(call.klines) < S1_LOOKBACK + 1) =>
              /\ call.out.levels = call.levels
              /\ call.out.last_ts = call.last_ts

\* a refresh whose last candle holds both the highest high and the lowest low
\* of the list has set the levels from the candles before it
C22_Witness ==
    /\ S1Refresh /\ call.fetch_ok /\ Len(call.klines) = S1_LOOKBACK + 2
    /\ \A i \in ClosedCandles : /\ call.klines[i].high < call.klines[Len(call.klines)].high
                                /\ call.klines[i].low > call.klines[Len(call.klines)].low
    /\ call.out.ok /\ call.out.levels # call.levels

\* the operations of the S1 controller: the level refresh, and the check with
\* the adjustment order it places
S1Operations == {"fetch_and_calculate_s1_levels", "s1_check_and_execute"}

\* C21: no operation of the S1 controller (level refresh, check, adjustment
\* order placed, skipped or failed) changes base_price, grid_size, highest,
\* lowest or buying_or_selling
C21_S1GridFrame ==
    [][call'.fn \in S1Operations =>
          /\ base_price' = base_price
          /\ grid_size' = grid_size
          /\ highest' = highest
          /\ lowest' = lowest
          /\ buying_or_selling' = buying_or_selling]_vars

\* an S1 check has placed its sell order beside a trader configured with the
\* base price 100.0
C21_Witness ==
    /\ call.fn = "s1_check_and_execute" /\ call.out.orders = << "sell" >>
    /\ call.price # 1000
    /\ base_price = 1000 /\ grid_size = INITIAL_GRID

\* the recorded call is an S1 check with sized orders, made with levels, a
\* price and total assets
S1Sizing ==
    /\ call.fn = "s1_sizing"
    /\ call.levels # None /\ call.price > 0 /\ call.total_assets > 0

\* in thousandths of a BNB, rounded down: the sell size
\* min((position_value - SELL_TARGET_PCT * total_assets) / price, spot balance)
\* and the buy size (BUY_TARGET_PCT * total_assets - position_value) / price
S1SellSize ==
    Min(((call.position_value * 100 - S1_SELL_TARGET_PCT * call.total_assets) * 100)
            \div call.price,
        call.bnb_balance * 1000)

S1BuySize ==
    ((S1_BUY_TARGET_PCT * call.total_assets - call.position_value * 100) * 100)
        \div call.price

\* an order of that size is worth the minimum notional
S1MeetsNotional(size) == size * call.price >= S1_MIN_NOTIONAL * 1000 * 10

\* C23 as the specification states it: with price > daily_high and position
\* ratio > SELL_TARGET_PCT the check submits a market sell of the sell size;
\* with instead price < daily_low and position ratio < BUY_TARGET_PCT it
\* submits a market buy of the buy size; in every other case it submits nothing
C23_S1AlwaysSubmits ==
    S1Sizing =>
        /\ S1SellCondition =>
              call.orders = << [side |-> "sell", amount |-> S1SellSize] >>
        /\ (~S1SellCondition /\ S1BuyCondition) =>
              call.orders = << [side |-> "buy", amount |-> S1BuySize] >>
        /\ (~S1SellCondition /\ ~S1BuyCondition) => call.orders = << >>

\* C23: the check submits a market sell of the sell size exactly when price >
\* daily_high, position ratio > SELL_TARGET_PCT, the size is positive and worth
\* the minimum notional and the funds check passes; it submits a market buy of
\* the buy size exactly when the sell condition is false, price < daily_low,
\* position ratio < BUY_TARGET_PCT, the size is positive and worth the minimum
\* notional and the funds check passes; in every other case it submits nothing
C23_S1OrderSizing ==
    /\ S1Sizing =>
        /\ (S1SellCondition /\ S1SellSize > 0 /\ S1MeetsNotional(S1SellSize)
                /\ call.funds_ok) =>
              call.orders = << [side |-> "sell", amount |-> S1SellSize] >>
        /\ (~S1SellCondition /\ S1BuyCondition /\ S1BuySize > 0
                /\ S1MeetsNotional(S1BuySize) /\ call.funds_ok) =>
              call.orders = << [side |-> "buy", amount |-> S1BuySize] >>
        /\ ~(\/ S1SellCondition /\ S1SellSize > 0 /\ S1MeetsNotional(S1SellSize)
                    /\ call.funds_ok
             \/ ~S1SellCondition /\ S1BuyCondition /\ S1BuySize > 0
                    /\ S1MeetsNotional(S1BuySize) /\ call.funds_ok) =>
              call.orders = << >>
    /\ (call.fn = "s1_sizing" /\ ~S1Sizing) => call.orders = << >>

\* a sell of 0.291 BNB: 30 USDT above the target at the price 103.0, rounded
\* down, with 1 BNB in the spot account
C23_Witness ==
    /\ S1Sizing /\ S1SellCondition
    /\ call.price = 1030 /\ call.position_value = 80 /\ call.bnb_balance = 1
    /\ call.orders = << [side |-> "sell", amount |-> 291] >>

\* the recorded call is a sweep
Sweep == call.fn = "transfer_excess_funds"

\* the surplus of USDT above 16 % of total assets, in hundredths of a USDT, and
\* the surplus of BNB above 16 % of total assets / price, times 100 * price
QuoteSurplus == call.spot_quote - TARGET_HOLD_PCT * call.total_assets

BaseSurplusScaled == call.spot_base * call.price - TARGET_HOLD_PCT * call.total_assets * 10

\* the transfers of the recorded sweep in one currency
SweepRequests(currency) ==
    { i \in 1 .. Len(call.out.requests) : call.out.requests[i].currency = currency }

\* C24: with a positive price and total assets T > 0 the sweep requests a
\* transfer of USDT to savings if and only if spot_quote - 0.16 * T is not
\* below 1 USDT, of exactly that amount, and a transfer of BNB if and only if
\* spot_base - 0.16 * T / price is not below 0.01 BNB, of exactly that amount;
\* it requests nothing else; with a price or total assets that is not positive
\* it requests nothing and returns false
C24_SweepPolicy ==
    Sweep =>
        /\ (call.price > 0 /\ call.total_assets > 0) =>
              /\ Len(call.out.requests) <= 2
              /\ Cardinality(SweepRequests(quote_currency)) =
                     (IF QuoteSurplus >= 100 THEN 1 ELSE 0)
              /\ \A i \in SweepRequests(quote_currency) :
                     call.out.requests[i].amount = QuoteSurplus
              /\ Cardinality(SweepRequests(base_currency)) =
                     (IF BaseSurplusScaled >= call.price THEN 1 ELSE 0)
              /\ \A i \in SweepRequests(base_currency) :
                     call.out.requests[i].amount =
                         [num |-> BaseSurplusScaled, den |-> 100 * call.price]
              /\ \A i \in 1 .. Len(call.out.requests) :
                     call.out.requests[i].currency \in {quote_currency, base_currency}
        /\ (call.price <= 0 \/ call.total_assets <= 0) =>
              call.out.requests = << >> /\ ~call.out.result

\* C25: whenever total assets is zero or unavailable every consumer of the
\* position ratio aborts without acting on a ratio: the sell check does not
\* rewrite base_price through auto-correction, the S1 controller places no
\* order, the sweep transfers nothing
C25_ZeroTotalAborts ==
    /\ (call.fn = "sell_check_on_accounts" /\ call.total_assets <= 0) =>
           ~call.corrected /\ call.base_price_after = call.base_price
    /\ (call.fn = "s1_sizing" /\ call.total_assets <= 0) => call.orders = << >>
    /\ (call.fn = "s1_check_and_execute" /\ call.total_assets <= 0) =>
           call.out.orders = << >>
    /\ (call.fn = "transfer_excess_funds" /\ call.total_assets <= 0) =>
           call.out.requests = << >>

----------------------------------------------------------------------------
(* Properties of the control loop *)

\* C26: an exception raised inside one iteration never ends the loop: it is
\* caught, the loop waits the cooldown and a new iteration begins, so a later
\* tick always eventually runs; a call of execute_order that exhausts its
\* retries only returns failure to the loop
C26_LoopSurvives == []<>(pc = "loop")

\* an initialized trader is waiting the cooldown after an exception
C26_Witness ==
    /\ pc = "cooldown" /\ initialized
    /\ current_price # None

\* ---------------------------------------------------------------------
\* Properties of the monitoring surface

StatusRequest == call.fn = "handle_status"

\* C27: a status request is read-only: it changes neither the grid state
\* of the trader, nor the price cache, nor the balance caches.
C27_StatusReadOnly ==
    StatusRequest =>
        /\ call.price_after = call.price_before
        /\ call.balance_after = call.balance_before
        /\ call.funding_after = call.funding_before

\* ---------------------------------------------------------------------
\* Properties of the shutdown

Shutdown == call.fn = "shutdown"

\* C28: whenever the process shuts down, the open orders of the pair are
\* cancelled before the connection is closed: no order of the pair is
\* open when it is closed.
C28_ShutdownCancelsFirst ==
    Shutdown /\ call.closed => call.open_at_close = {}

\* ---------------------------------------------------------------------
\* Properties of the order of the steps within one tick

Iteration == call.fn = "main_loop_iteration"

\* The position of a call in the calls of the iteration, 0 when it was not made.
CallPosition(name) ==
    IF \E i \in DOMAIN call.calls : call.calls[i] = name
    THEN CHOOSE i \in DOMAIN call.calls : call.calls[i] = name
    ELSE 0

Made(name) == CallPosition(name) > 0

\* first was made, and before then
MadeBefore(first, then) == Made(first) /\ CallPosition(first) < CallPosition(then)

AfterSignals == {"multi_layer_check", "check_and_execute",
                 "_calculate_dynamic_interval_seconds", "adjust_grid_size"}

\* C29: within one tick no call is made twice and at most one order
\* execution runs; the sell check comes first and, when it fires, only
\* execute_order(sell) follows; otherwise the buy check comes and, when it
\* fires, only execute_order(buy) follows; only when neither fires do the
\* risk check, then the S1 controller, then the grid adjustment run, and
\* a risk check that returns true skips the last two.
C29_TickOrdering ==
    Iteration =>
        /\ \A i, j \in DOMAIN call.calls : i # j => call.calls[i] # call.calls[j]
        /\ ~(Made("execute_order sell") /\ Made("execute_order buy"))
        /\ Made("execute_order sell") =>
              /\ call.sell_signal
              /\ CallPosition("execute_order sell") = CallPosition("_check_sell_signal") + 1
              /\ CallPosition("execute_order sell") = Len(call.calls)
        /\ Made("_check_buy_signal") =>
              /\ ~call.sell_signal
              /\ CallPosition("_check_buy_signal") = CallPosition("_check_sell_signal") + 1
        /\ Made("execute_order buy") =>
              /\ call.buy_signal
              /\ CallPosition("execute_order buy") = CallPosition("_check_buy_signal") + 1
              /\ CallPosition("execute_order buy") = Len(call.calls)
        /\ \A name \in AfterSignals : Made(name) =>
              /\ ~call.sell_signal /\ ~call.buy_signal
              /\ MadeBefore("_check_buy_signal", name)
        /\ Made("check_and_execute") =>
              /\ ~call.risk
              /\ MadeBefore("multi_layer_check", "check_and_execute")
        /\ Made("adjust_grid_size") =>
              /\ ~call.risk
              /\ MadeBefore("check_and_execute", "adjust_grid_size")
        /\ call.has_price /\ call.raising = 0 =>
              /\ call.calls[3] = "_check_sell_signal"
              /\ call.sell_signal => Made("execute_order sell")
              /\ ~call.sell_signal /\ call.buy_signal => Made("execute_order buy")
              /\ ~call.sell_signal /\ ~call.buy_signal =>
                    /\ Made("multi_layer_check")
                    /\ ~call.risk => Made("check_and_execute")

\* A tick in which neither signal fires and the risk check returns true:
\* the iteration ends with the risk check.
C29_Witness ==
    /\ Iteration
    /\ call.has_price /\ ~call.sell_signal /\ ~call.buy_signal /\ call.risk
    /\ call.due /\ ~call.monitoring /\ call.raising = 0
    /\ call.calls[Len(call.calls)] = "multi_layer_check"

\* A tick that runs all three late steps in order.
C29_FullTick ==
    /\ Iteration
    /\ call.calls = <<"update_daily_s1_levels", "get_latest_price",
                      "_check_sell_signal", "_check_buy_signal",
                      "multi_layer_check", "check_and_execute",
                      "_calculate_dynamic_interval_seconds", "adjust_grid_size">>

\* ---------------------------------------------------------------------
\* Properties of the handling of an order whose status is unknown

\* fetch_order has just raised for the order in flight
FetchFailed == pc = "wait" /\ gw' = "fetch_error"

\* C30: when fetching the status of a placed order fails with a gateway
\* error, the status of the order is checked again before the attempt is
\* given up: the step after the failed fetch is the recheck, and not the
\* next attempt with a further placement.
C30_FetchErrorRechecked ==
    [][FetchFailed => pc' = "recheck"]_vars

\* ---------------------------------------------------------------------
\* Properties of orders left behind by execute_order

\* C31: an order whose state stayed ambiguous after the second check is
\* dropped from the markers and is resolved later by a reconciliation of
\* the open orders: no order placed by execute_order stays open at the
\* gateway, untracked, for as long as the control loop runs.
C31_AmbiguousOrderReconciled ==
    (untracked /\ gw = "recheck_open") ~> ~untracked

\* The first half alone: the step that leaves the order behind clears its
\* marker.
C31_DroppedFromTracking ==
    [][pc = "recheck" /\ gw' = "recheck_open" => active_orders'[side] = None]_vars

\* ---------------------------------------------------------------------
\* Properties of the price step

PriceStep == call.fn = "price_step"

\* the price the loop received is missing, zero or negative
InvalidPrice == call.price = None \/ call.price[1] <= 0

\* C32: on a tick whose latest price is missing, zero or negative no
\* signal is evaluated, no order is placed and base_price, highest,
\* lowest and buying_or_selling stay as they were.
C32_InvalidPriceSkipped ==
    PriceStep /\ InvalidPrice =>
        /\ ~call.evaluated
        /\ call.order = "none"
        /\ call.base_price_after = call.base_price
        /\ call.highest_after = None
        /\ call.lowest_after = None
        /\ ~call.buying_or_selling_after

\* The part of it that holds: a missing or zero price skips the tick.
C32_MissingOrZeroSkipped ==
    PriceStep /\ ~Truthy(call.price) =>
        /\ ~call.evaluated
        /\ call.order = "none"
        /\ call.base_price_after = call.base_price
        /\ call.lowest_after = None
        /\ ~call.buying_or_selling_after

\* ---------------------------------------------------------------------
\* Properties of the refresh rate of the S1 levels

S1Updates == call.fn = "update_daily_s1_levels"

\* the levels are those of a refresh at time call.last_ts
S1LevelsSet == S1Updates /\ call.levels # None /\ call.last_ts > 0

\* C33: after a refresh that set the S1 levels at time t, a call of
\* update_daily_s1_levels before t + 23.9 hours fetches no daily candles
\* and leaves the levels as they are.
C33_S1RefreshRate ==
    [][S1LevelsSet /\ call'.now < call.last_ts + daily_update_interval =>
          /\ ~call'.fetched
          /\ call'.levels = call.levels
          /\ call'.last_ts = call.last_ts]_vars

\* Ticks ran after a refresh without a fetch, and a second refresh
\* followed when the interval had passed.
C33_Witness ==
    /\ S1LevelsSet
    /\ call.fetches = 2
    /\ ~call.fetched
    /\ call.now > call.last_ts
    /\ call.now < call.last_ts + daily_update_interval

\* ---------------------------------------------------------------------
\* Properties of the S1 adjustment against the limits of the venue

S1Adjustment == call.fn = "execute_s1_adjustment"

\* the minimums that apply: those of the venue, the defaults without them
VenueMinAmount ==
    IF call.limits = None THEN Some(S1_MIN_AMOUNT) ELSE call.limits[1].amount_min

VenueMinNotional ==
    IF call.limits = None THEN Some(S1_MIN_NOTIONAL) ELSE call.limits[1].cost_min

\* the amount rounded down to three decimal places, in ten-thousandths
RoundedAmount == (call.raw_amount \div 10) * 10

BelowVenueMinimums ==
    \/ RoundedAmount = 0
    \/ VenueMinAmount # None /\ RoundedAmount < VenueMinAmount[1]
    \/ VenueMinNotional # None /\ call.price > 0
          /\ RoundedAmount * call.price < VenueMinNotional[1] * 100000

\* C34: an S1 adjustment whose rounded amount is zero or below the minimum
\* quantity of the venue, or whose amount times price is below the minimum
\* notional of the venue, places no order and asks for no transfer of funds.
C34_S1VenueMinimums ==
    S1Adjustment /\ BelowVenueMinimums =>
        /\ call.orders = << >>
        /\ call.funds_requests = 0
        /\ call.sweeps = 0

\* A funded adjustment of 0.1 BNB at 100.0 where the venue asks for 20 USDT.
C34_Witness ==
    /\ S1Adjustment
    /\ call.funds_ok
    /\ RoundedAmount = 1000
    /\ call.price = 1000
    /\ VenueMinNotional = Some(20)
    /\ call.orders = << >>
    /\ call.funds_requests = 0

\* The same adjustment where the venue asks for 5 USDT is placed.
C34_AboveMinimumsPlaced ==
    /\ S1Adjustment
    /\ ~BelowVenueMinimums
    /\ call.orders # << >>

\* ---------------------------------------------------------------------
\* Properties of the risk gate

TickChecks == call.fn = "tick_checks"

\* the ratio at which multi_layer_check answers true
OutsideRiskLimits == multi_layer_check(call.position_ratio)

\* C35: the grid engine places no order on a tick on which the position
\* ratio is below MIN_POSITION_RATIO or above MAX_POSITION_RATIO.
C35_RiskGateGatesGridTrades ==
    TickChecks /\ OutsideRiskLimits => call.order = "none"

\* The particular case the claim names: auto-correction off, the ratio
\* below the minimum, and yet a grid sell.
C35_SellBelowMinimum ==
    /\ TickChecks
    /\ ~call.AUTO_ADJUST_BASE_PRICE
    /\ call.position_ratio < RISK_MIN_POSITION_RATIO
    /\ call.order = "sell"

\* ---------------------------------------------------------------------
\* Properties of S1 behind the risk gate

RiskThenS1 == call.fn = "risk_then_s1" /\ call.levels # None /\ call.price > 0

S1SellDue ==
    /\ call.price > call.levels[1].high
    /\ call.position_pct > S1_SELL_TARGET_PCT

S1BuyDue ==
    /\ call.price < call.levels[1].low
    /\ call.position_pct < S1_BUY_TARGET_PCT

\* C36: on a tick without a grid trade, with the levels known, the order
\* above the minimums and the funds available, a price above the daily high
\* with a ratio above the sell target leads to an S1 sell on that tick and
\* a price below the daily low with a ratio below the buy target to an S1
\* buy, also when the ratio is outside the limits of the risk gate.
C36_S1ActsWheneverDue ==
    RiskThenS1 =>
        /\ S1SellDue => \E i \in DOMAIN call.orders : call.orders[i] = "sell"
        /\ ~S1SellDue /\ S1BuyDue =>
              \E i \in DOMAIN call.orders : call.orders[i] = "buy"

\* Inside the limits of the risk gate the same condition does lead to the
\* order.
C36_S1ActsInsideLimits ==
    RiskThenS1 /\ ~call.halted =>
        /\ S1SellDue => \E i \in DOMAIN call.orders : call.orders[i] = "sell"
        /\ ~S1SellDue /\ S1BuyDue =>
              \E i \in DOMAIN call.orders : call.orders[i] = "buy"

\* ---------------------------------------------------------------------
\* Properties of the termination of execute_order

\* execute_order is running
InExecute == pc \in {"exec", "wait", "recheck"}

\* the step ends an iteration of the retry loop without returning
IterationEnds == InExecute /\ pc' = "exec"

\* C37: execute_order always returns: it runs at most max_retries
\* iterations and places at most max_retries orders, the retry counter
\* grows by exactly one at the end of every iteration that does not return
\* and not within an iteration, and a call that has begun reaches its
\* return.
C37_ExecuteTerminates ==
    /\ [](retry_count <= max_retries /\ placed <= max_retries)
    /\ [][/\ IterationEnds => retry_count' = retry_count + 1
          /\ InExecute /\ pc' \in {"wait", "recheck"} =>
                retry_count' = retry_count]_vars
    /\ (InExecute ~> pc = "done")

\* A call has used all its iterations on orders that were placed and not
\* filled, has placed max_retries orders and has returned failure.
C37_Witness ==
    /\ pc = "done"
    /\ result = "failure"
    /\ retry_count = max_retries
    /\ placed = max_retries
    /\ faults = MaxFaults

\* ---------------------------------------------------------------------
\* Properties of the amounts drawn from savings

\* C38: whenever ensure_trading_funds asks for a transfer from savings to
\* spot, the amount asked for, the shortfall plus five percent, is not
\* above the savings balance of that currency.
C38_SavingsNeverOverdrawn ==
    FundsCall =>
        \A i \in DOMAIN call.out.transfers :
            call.out.transfers[i].amount.num <= call.savings * call.out.transfers[i].amount.den

\* What does hold: the shortfall itself is covered by the savings.
C38_ShortfallCovered ==
    FundsCall =>
        \A i \in DOMAIN call.out.transfers :
            call.out.transfers[i].amount.num * 100
                <= call.savings * call.out.transfers[i].amount.den * 105

\* ---------------------------------------------------------------------
\* Properties of the position ratio

RatioCall == call.fn = "get_position_ratio"

\* C39: the position ratio lies between 0 and 1 (0 and 100 percent),
\* whatever the prices, the balances and the age of the caches.
C39_RatioWithinUnitInterval ==
    RatioCall => call.ratio >= 0 /\ call.ratio <= 100

\* With a total that is not cached, or cached at the same price, it does.
C39_FreshTotalWithinUnitInterval ==
    RatioCall /\ (call.assets_cache.time = 0 \/ call.price = call.earlier_price) =>
        call.ratio >= 0 /\ call.ratio <= 100

\* ---------------------------------------------------------------------
\* Properties of the grid adjustment without candles

AdjustCall == call.fn = "adjust_grid_size"

\* C40: when the fetch of the hourly candles fails or returns no candles,
\* the adjustment leaves grid_size at its previous value.
C40_FailedVolatilityKeepsGrid ==
    AdjustCall /\ call.fetch \in {"raises", "empty"} =>
        call.grid_after = call.grid_before

\* What the code does instead: the volatility counts as 0 and the grid
\* size becomes that of the lowest volatility range.
C40_FailedVolatilityGivesLowestGrid ==
    AdjustCall /\ call.fetch \in {"raises", "empty"} =>
        call.grid_after = Max(Min(GridRanges[1].grid, GRID_MAX), GRID_MIN)

====
